---- MODULE Spec2Model ----
(***************************************************************************)
(* State-machine model of the STM32F103 simulator: Memory, Bus, NVIC,      *)
(* TIM2, USART1, the Thumb core with exception entry/exit, the Debugger    *)
(* and the Simulator orchestrator.                                         *)
(*                                                                         *)
(* Representation of uint32_t: a 32-bit word is held as the integer with   *)
(* the same two's-complement bit pattern, i.e. a value in -2^31 .. 2^31-1  *)
(* (0xFFFFFFF9 is -7, 0x80000000 is MinInt).  AddW/SubW wrap modulo 2^32,  *)
(* ULt/ULe compare as unsigned, AndW/OrW act on the 32 bits.               *)
(***************************************************************************)
EXTENDS Integers, Naturals, Sequences, FiniteSets, TLC

VARIABLES
    memory,      \* Memory: [flash, sram], each a byte map offset -> 1..255 (absent = 0)
    nvic,        \* NVIC: [pending, active, enabled, priority, current_priority]
    bus,         \* Bus: sequence of regions [base, size, dev]
    core,        \* CoreState: [r, xpsr, thumb_mode, interruptible, current_irq, cycles]
    debugger,    \* Debugger: sequence of breakpoint addresses
    timer,       \* TimerState
    uart,        \* UartState
    uart_out,    \* bytes handed to the UART output callback since the last reset, in call order
    halted,      \* Simulator.halted
    running,     \* Simulator.running
    status,      \* Status returned by the last simulator_step ("None" before any)
    entered,     \* irq+1 of the exception core_step entered in the last step, 0 if none
    wstatus,     \* Status of the bus_write the last executed instruction made (discarded by the handler)
    handlers,    \* handlers in progress, innermost last: [irq, words, sp, active, prio]
                 \* as enter_exception found them (history of entry/return)
    returned,    \* << >>, or <<[from, words, sp]>>: the handler record the last
                 \* exit_exception returned from, with the registers it restored
    reply,       \* << >>, or <<command, packet>>: the packet the GDB stub sent in the
                 \* last operation and the command it answers
    ticks,       \* number of timer_tick calls made on the timer driven alone
    query,       \* << >>, or <<r>>: what the call returned when the last operation was a
                 \* direct call of a function by the host (nvic_get_pending_irq:
                 \* [found, best_irq]; uart_read, memory reads: the value; writes: the Status)
    host,        \* the host's side of the UART driven alone: [sent, fed, over], the bytes
                 \* it wrote to DR so far, the number of bytes it passed to
                 \* uart_incoming_char, and how many of its DR writes found a byte pending
    rsp          \* the connection of a GDB client: [wire, log, pos, await, cmds, intrs],
                 \* the bytes the client sent that the stub has not read, what the stub
                 \* sent ("+", "-" and the packets), where rsp_session stands ("recv" in
                 \* rsp_recv_packet, "loop" in handle_continue, "ack" in rsp_send_packet,
                 \* "closed" once it returned), the command the client awaits the reply
                 \* of, and the numbers of commands and 0x03 bytes the client sent

vars == <<memory, nvic, bus, core, debugger, timer, uart, uart_out,
          halted, running, status, entered, wstatus, handlers, returned,
          reply, ticks, query, host, rsp>>

(***************************************************************************)
(* Bounds of the model                                                     *)
(***************************************************************************)
MaxCycles == 10
MaxRx == 1

(***************************************************************************)
(* 32-bit word arithmetic                                                  *)
(***************************************************************************)
MinInt == -2147483647 - 1
MaxInt == 0 - (MinInt + 1)

\* bits 0..30 of a word, as a natural
Lo31(v) == IF v >= 0 THEN v ELSE v - MinInt

FromParts(neg, lo) == IF neg THEN lo + MinInt ELSE lo

\* uint32_t addition
AddW(a, b) ==
    IF a >= 0 /\ b >= 0
    THEN IF a > MaxInt - b THEN (a + MinInt) + (b + MinInt) ELSE a + b
    ELSE IF a < 0 /\ b < 0
         THEN IF a < MinInt - b THEN (a - MinInt) + (b - MinInt) ELSE a + b
         ELSE a + b

NegW(a) == IF a = MinInt THEN MinInt ELSE 0 - a

\* uint32_t subtraction
SubW(a, b) == AddW(a, NegW(b))

\* unsigned comparisons
ULt(a, b) == IF (a < 0) = (b < 0) THEN a < b ELSE b < 0
ULe(a, b) == a = b \/ ULt(a, b)

\* bitwise AND and OR of two naturals below 2^bits, bit by bit
RECURSIVE AndBits(_, _, _)
AndBits(a, b, bits) ==
    IF bits = 0 THEN 0
    ELSE (a % 2) * (b % 2) + 2 * AndBits(a \div 2, b \div 2, bits - 1)

RECURSIVE OrBits(_, _, _)
OrBits(a, b, bits) ==
    IF bits = 0 THEN 0
    ELSE (IF (a % 2) + (b % 2) > 0 THEN 1 ELSE 0) + 2 * OrBits(a \div 2, b \div 2, bits - 1)

\* the same on hexadecimal digits, tabulated
And4 == [x \in 0 .. 15 |-> [y \in 0 .. 15 |-> AndBits(x, y, 4)]]
Or4 == [x \in 0 .. 15 |-> [y \in 0 .. 15 |-> OrBits(x, y, 4)]]

\* bitwise AND and OR of two naturals, digit by digit
RECURSIVE AndN(_, _)
AndN(a, b) ==
    IF a = 0 \/ b = 0 THEN 0
    ELSE And4[a % 16][b % 16] + 16 * AndN(a \div 16, b \div 16)

RECURSIVE OrN(_, _)
OrN(a, b) ==
    IF a = 0 THEN b
    ELSE IF b = 0 THEN a
    ELSE Or4[a % 16][b % 16] + 16 * OrN(a \div 16, b \div 16)

AndW(a, b) == FromParts(a < 0 /\ b < 0, AndN(Lo31(a), Lo31(b)))
OrW(a, b) == FromParts(a < 0 \/ b < 0, OrN(Lo31(a), Lo31(b)))
NotW(a) == (-1) - a

\* bit k (0..31) of a word
Bit(v, k) == IF k = 31 THEN (IF v < 0 THEN 1 ELSE 0) ELSE (Lo31(v) \div (2 ^ k)) % 2

\* (uint8_t)(value >> 8k), k in 0..3
ByteOf(v, k) == (v \div (256 ^ k)) % 256

\* the word with bytes b0 (least significant) .. b3
WordOf(b0, b1, b2, b3) ==
    b0 + 256 * b1 + 65536 * b2 + 16777216 * (IF b3 >= 128 THEN b3 - 256 ELSE b3)

\* sign_extend(value, bits), value < 2^bits
sign_extend(value, bits) ==
    IF value >= 2 ^ (bits - 1) THEN value - 2 ^ bits ELSE value

(***************************************************************************)
(* Status                                                                  *)
(***************************************************************************)
STATUS_OK == "Ok"
STATUS_ERROR == "Error"
STATUS_INVALID_ADDRESS == "InvalidAddress"
STATUS_INVALID_INSTRUCTION == "InvalidInstruction"
STATUS_BREAKPOINT_HIT == "BreakpointHit"
STATUS_HALTED == "Halted"

(***************************************************************************)
(* Memory                                                                  *)
(***************************************************************************)
FLASH_BASE == 134217728
FLASH_SIZE == 65536
SRAM_BASE == 536870912
SRAM_SIZE == 20480

\* base[offset] of a byte container held as a sparse map
ByteAt(base, offset) == IF offset \in DOMAIN base THEN base[offset] ELSE 0

\* base[offset] = b
SetByte(base, offset, b) ==
    IF b # 0 THEN (offset :> b) @@ base
    ELSE IF offset \in DOMAIN base THEN [o \in (DOMAIN base) \ {offset} |-> base[o]]
    ELSE base

read_le(base, offset, size) ==
    CASE size = 1 -> ByteAt(base, offset)
      [] size = 2 -> ByteAt(base, offset) + 256 * ByteAt(base, offset + 1)
      [] size = 4 -> WordOf(ByteAt(base, offset), ByteAt(base, offset + 1),
                            ByteAt(base, offset + 2), ByteAt(base, offset + 3))
      [] OTHER -> 0

\* write_le storing the most significant byte first
write_le_reversed(base, offset, value, size) ==
    CASE size = 1 -> SetByte(base, offset, ByteOf(value, 0))
      [] size = 2 -> SetByte(SetByte(base, offset, ByteOf(value, 1)),
                             offset + 1, ByteOf(value, 0))
      [] size = 4 -> SetByte(SetByte(SetByte(SetByte(base, offset, ByteOf(value, 3)),
                             offset + 1, ByteOf(value, 2)),
                             offset + 2, ByteOf(value, 1)),
                             offset + 3, ByteOf(value, 0))
      [] OTHER -> base

write_le(base, offset, value, size) ==
    CASE size = 1 -> SetByte(base, offset, ByteOf(value, 0))
      [] size = 2 -> SetByte(SetByte(base, offset, ByteOf(value, 0)),
                             offset + 1, ByteOf(value, 1))
      [] size = 4 -> SetByte(SetByte(SetByte(SetByte(base, offset, ByteOf(value, 0)),
                             offset + 1, ByteOf(value, 1)),
                             offset + 2, ByteOf(value, 2)),
                             offset + 3, ByteOf(value, 3))
      [] OTHER -> base

memory_flash_read(mem, offset, size) ==
    IF ULt(FLASH_SIZE, AddW(offset, size)) THEN 0
    ELSE read_le(mem.flash, offset, size)

\* memory_flash_write storing the bytes as memory_sram_write does
memory_flash_write_through(mem, offset, value, size) ==
    IF ULt(FLASH_SIZE, AddW(offset, size))
    THEN [st |-> STATUS_INVALID_ADDRESS, mem |-> mem]
    ELSE [st |-> STATUS_OK,
          mem |-> [mem EXCEPT !.flash = write_le(mem.flash, offset, value, size)]]

memory_flash_write(mem, offset, value, size) ==
    [st |-> STATUS_ERROR, mem |-> mem]

memory_sram_read(mem, offset, size) ==
    IF ULt(SRAM_SIZE, AddW(offset, size)) THEN 0
    ELSE read_le(mem.sram, offset, size)

memory_sram_write(mem, offset, value, size) ==
    IF ULt(SRAM_SIZE, AddW(offset, size))
    THEN [st |-> STATUS_INVALID_ADDRESS, mem |-> mem]
    ELSE [st |-> STATUS_OK,
          mem |-> [mem EXCEPT !.sram = write_le(mem.sram, offset, value, size)]]

memory_reset(mem) == [mem EXCEPT !.sram = << >>]

(***************************************************************************)
(* NVIC                                                                    *)
(***************************************************************************)
NVIC_NUM_IRQ == 43
NO_ACTIVE_PRIORITY == 255

IrqRange == 0 .. (NVIC_NUM_IRQ - 1)

nvic_reset(nv) ==
    [pending  |-> [i \in IrqRange |-> 0],
     active   |-> [i \in IrqRange |-> 0],
     enabled  |-> [i \in IrqRange |-> 0],
     priority |-> [i \in IrqRange |-> 0],
     current_priority |-> NO_ACTIVE_PRIORITY]

nvic_set_pending(nv, irq) ==
    IF irq < NVIC_NUM_IRQ THEN [nv EXCEPT !.pending[irq] = 1] ELSE nv

nvic_clear_pending(nv, irq) ==
    IF irq < NVIC_NUM_IRQ THEN [nv EXCEPT !.pending[irq] = 0] ELSE nv

nvic_enable_irq(nv, irq) ==
    IF irq < NVIC_NUM_IRQ THEN [nv EXCEPT !.enabled[irq] = 1] ELSE nv

nvic_disable_irq(nv, irq) ==
    IF irq < NVIC_NUM_IRQ THEN [nv EXCEPT !.enabled[irq] = 0] ELSE nv

nvic_set_priority(nv, irq, prio) ==
    IF irq < NVIC_NUM_IRQ THEN [nv EXCEPT !.priority[irq] = prio] ELSE nv

\* the test of the scan loop had it been written with <= : an IRQ of equal
\* priority would replace the candidate, and preempt a handler of its own priority
PendingBeatsOrTies(nv, i, best_prio) ==
    nv.pending[i] # 0 /\ nv.enabled[i] # 0 /\ nv.priority[i] <= best_prio

\* the test of the scan loop without its test of enabled[i]
PendingBeatsIgnoringEnable(nv, i, best_prio) ==
    nv.pending[i] # 0 /\ nv.priority[i] < best_prio

\* the test of the scan loop: does IRQ i replace the best candidate so far
PendingBeats(nv, i, best_prio) ==
    nv.pending[i] # 0 /\ nv.enabled[i] # 0 /\ nv.priority[i] < best_prio

\* the assignments of the scan loop without the one to best_prio: a later
\* IRQ below current_priority replaces a candidate of a smaller priority value
PendingStepKeepingPrio(nv, i, acc) == [best_prio |-> acc.best_prio, best_irq |-> i, found |-> 1]

\* the assignments of the scan loop when IRQ i replaces the candidate
PendingStep(nv, i, acc) == [best_prio |-> nv.priority[i], best_irq |-> i, found |-> 1]

\* the scan loop of nvic_get_pending_irq from index i on
RECURSIVE PendingScan(_, _, _)
PendingScan(nv, i, acc) ==
    IF i >= NVIC_NUM_IRQ THEN acc
    ELSE IF PendingBeats(nv, i, acc.best_prio)
         THEN PendingScan(nv, i + 1, PendingStep(nv, i, acc))
         ELSE PendingScan(nv, i + 1, acc)

\* [found, best_irq]; irq_out is written only when found = 1
nvic_get_pending_irq(nv) ==
    PendingScan(nv, 0, [best_prio |-> nv.current_priority, best_irq |-> 0, found |-> 0])

nvic_acknowledge(nv, irq) ==
    IF irq < NVIC_NUM_IRQ
    THEN [nv EXCEPT !.pending[irq] = 0, !.active[irq] = 1,
                    !.current_priority = nv.priority[irq]]
    ELSE nv

\* the recalculation loop of nvic_complete from index i on, cur the minimum so far
RECURSIVE CompleteScan(_, _, _)
CompleteScan(nv, i, cur) ==
    IF i >= NVIC_NUM_IRQ THEN cur
    ELSE IF nv.active[i] # 0 /\ nv.priority[i] < cur
         THEN CompleteScan(nv, i + 1, nv.priority[i])
         ELSE CompleteScan(nv, i + 1, cur)

nvic_complete(nv, irq) ==
    LET cleared == IF irq < NVIC_NUM_IRQ THEN [nv EXCEPT !.active[irq] = 0] ELSE nv
    IN  [cleared EXCEPT !.current_priority = CompleteScan(cleared, 0, NO_ACTIVE_PRIORITY)]

(***************************************************************************)
(* Timer (TIM2)                                                            *)
(***************************************************************************)
TIM_CR1_OFFSET == 0
TIM_DIER_OFFSET == 12
TIM_SR_OFFSET == 16
TIM_CNT_OFFSET == 36
TIM_PSC_OFFSET == 40
TIM_ARR_OFFSET == 44
TIM_CR1_CEN == 1
TIM_SR_UIF == 1
TIM_DIER_UIE == 1
TIM2_BASE == 1073741824
TIM2_SIZE == 1024
TIM2_IRQ == 28

\* timer_init / timer_reset: all zero except irq and arr = 0xFFFFFFFF
timer_reset(irq) ==
    [cr1 |-> 0, dier |-> 0, sr |-> 0, cnt |-> 0, psc |-> 0, arr |-> -1,
     prescaler_counter |-> 0, irq |-> irq]

timer_read(tim, offset, size) ==
    CASE offset = TIM_CR1_OFFSET  -> tim.cr1
      [] offset = TIM_DIER_OFFSET -> tim.dier
      [] offset = TIM_SR_OFFSET   -> tim.sr
      [] offset = TIM_CNT_OFFSET  -> tim.cnt
      [] offset = TIM_PSC_OFFSET  -> tim.psc
      [] offset = TIM_ARR_OFFSET  -> tim.arr
      [] OTHER -> 0

timer_write(tim, offset, value, size) ==
    CASE offset = TIM_CR1_OFFSET  -> [st |-> STATUS_OK, tim |-> [tim EXCEPT !.cr1 = value]]
      [] offset = TIM_DIER_OFFSET -> [st |-> STATUS_OK, tim |-> [tim EXCEPT !.dier = value]]
      [] offset = TIM_SR_OFFSET   -> [st |-> STATUS_OK, tim |-> [tim EXCEPT !.sr = AndW(tim.sr, value)]]
      [] offset = TIM_CNT_OFFSET  -> [st |-> STATUS_OK, tim |-> [tim EXCEPT !.cnt = value]]
      [] offset = TIM_PSC_OFFSET  -> [st |-> STATUS_OK, tim |-> [tim EXCEPT !.psc = value]]
      [] offset = TIM_ARR_OFFSET  -> [st |-> STATUS_OK, tim |-> [tim EXCEPT !.arr = value]]
      [] OTHER -> [st |-> STATUS_ERROR, tim |-> tim]

\* the prescaler test had it been written with < : one tick short of PSC + 1
TimerPrescalingShort(tim, pc1) == ULt(pc1, tim.psc)

\* the prescaler test of timer_tick: the incremented prescaler counter has
\* not passed PSC, the main counter is left alone
TimerPrescaling(tim, pc1) == ULe(pc1, tim.psc)

\* the overflow test had it been written with > : the counter runs to ARR + 1
TimerOverflowsPastArr(tim, cnt1) == ULt(tim.arr, cnt1) /\ ULt(0, tim.arr)

\* the overflow test of timer_tick on the incremented counter
TimerOverflows(tim, cnt1) == ULe(tim.arr, cnt1) /\ ULt(0, tim.arr)

\* the update interrupt raised without the test of DIER.UIE
TimerUpdateIrqUnmasked(tim, nv) == nvic_set_pending(nv, tim.irq)

\* the update interrupt of timer_tick: pending in the NVIC if DIER.UIE is set
TimerUpdateIrq(tim, nv) ==
    IF AndW(tim.dier, TIM_DIER_UIE) # 0 THEN nvic_set_pending(nv, tim.irq) ELSE nv

\* timer_tick on the pair (timer, nvic); returns [tim, nv]
timer_tick(tim, nv) ==
    IF AndW(tim.cr1, TIM_CR1_CEN) = 0 THEN [tim |-> tim, nv |-> nv]
    ELSE LET pc1 == AddW(tim.prescaler_counter, 1)
         IN  IF TimerPrescaling(tim, pc1)
             THEN [tim |-> [tim EXCEPT !.prescaler_counter = pc1], nv |-> nv]
             ELSE LET cnt1 == AddW(tim.cnt, 1)
                      t1 == [tim EXCEPT !.prescaler_counter = 0, !.cnt = cnt1]
                  IN  IF TimerOverflows(t1, cnt1)
                      THEN [tim |-> [t1 EXCEPT !.cnt = 0, !.sr = OrW(t1.sr, TIM_SR_UIF)],
                            nv |-> TimerUpdateIrq(t1, nv)]
                      ELSE [tim |-> t1, nv |-> nv]

(***************************************************************************)
(* UART (USART1)                                                           *)
(***************************************************************************)
UART_SR_OFFSET == 0
UART_DR_OFFSET == 4
UART_BRR_OFFSET == 8
UART_CR1_OFFSET == 12
UART_SR_TXE == 128
UART_SR_TC == 64
UART_SR_RXNE == 32
UART_CR1_UE == 8192
UART_CR1_TXEIE == 128
UART_CR1_TCIE == 64
UART_CR1_RXNEIE == 32
UART_CR1_TE == 8
UART_CR1_RE == 4
UART_RX_BUFFER_SIZE == 16
USART1_BASE == 1073821696
USART1_SIZE == 1024
USART1_IRQ == 37

\* uart_init / uart_reset: all zero except irq and sr = TXE|TC
uart_reset(irq) ==
    [sr |-> UART_SR_TXE + UART_SR_TC, dr |-> 0, brr |-> 0, cr1 |-> 0, irq |-> irq,
     tx_pending |-> 0, tx_char |-> 0,
     rx_buffer |-> [i \in 0 .. (UART_RX_BUFFER_SIZE - 1) |-> 0],
     rx_head |-> 0, rx_tail |-> 0, rx_count |-> 0]

\* the value uart_read returns
uart_read_val(u, offset, size) ==
    CASE offset = UART_SR_OFFSET  -> u.sr
      [] offset = UART_DR_OFFSET  -> IF u.rx_count > 0 THEN u.rx_buffer[u.rx_tail] ELSE 0
      [] offset = UART_BRR_OFFSET -> u.brr
      [] offset = UART_CR1_OFFSET -> u.cr1
      [] OTHER -> 0

\* the UartState uart_read leaves
uart_read_eff(u, offset, size) ==
    IF offset = UART_DR_OFFSET /\ u.rx_count > 0
    THEN LET cnt == u.rx_count - 1
         IN  [u EXCEPT !.rx_tail = (u.rx_tail + 1) % UART_RX_BUFFER_SIZE,
                       !.rx_count = cnt,
                       !.sr = IF cnt = 0 THEN AndW(u.sr, NotW(UART_SR_RXNE)) ELSE u.sr]
    ELSE u

\* uart_write had a DR write that finds a byte pending been ignored
uart_write_keeping(u, offset, value, size) ==
    CASE offset = UART_SR_OFFSET  -> [st |-> STATUS_OK, u |-> [u EXCEPT !.sr = AndW(u.sr, value)]]
      [] offset = UART_DR_OFFSET  ->
            [st |-> STATUS_OK,
             u |-> IF AndW(u.cr1, UART_CR1_UE) # 0 /\ u.tx_pending = 0
                   THEN [u EXCEPT !.tx_char = ByteOf(value, 0), !.tx_pending = 1,
                                  !.sr = AndW(u.sr, NotW(UART_SR_TXE + UART_SR_TC))]
                   ELSE u]
      [] offset = UART_BRR_OFFSET -> [st |-> STATUS_OK, u |-> [u EXCEPT !.brr = value]]
      [] offset = UART_CR1_OFFSET -> [st |-> STATUS_OK, u |-> [u EXCEPT !.cr1 = value]]
      [] OTHER -> [st |-> STATUS_ERROR, u |-> u]

uart_write(u, offset, value, size) ==
    CASE offset = UART_SR_OFFSET  -> [st |-> STATUS_OK, u |-> [u EXCEPT !.sr = AndW(u.sr, value)]]
      [] offset = UART_DR_OFFSET  ->
            [st |-> STATUS_OK,
             u |-> IF AndW(u.cr1, UART_CR1_UE) # 0
                   THEN [u EXCEPT !.tx_char = ByteOf(value, 0), !.tx_pending = 1,
                                  !.sr = AndW(u.sr, NotW(UART_SR_TXE + UART_SR_TC))]
                   ELSE u]
      [] offset = UART_BRR_OFFSET -> [st |-> STATUS_OK, u |-> [u EXCEPT !.brr = value]]
      [] offset = UART_CR1_OFFSET -> [st |-> STATUS_OK, u |-> [u EXCEPT !.cr1 = value]]
      [] OTHER -> [st |-> STATUS_ERROR, u |-> u]

\* uart_incoming_char without its test of a full buffer
uart_incoming_char_unchecked(u, nv, c) ==
    [u |-> [u EXCEPT !.rx_buffer[u.rx_head] = c,
                     !.rx_head = (u.rx_head + 1) % UART_RX_BUFFER_SIZE,
                     !.rx_count = u.rx_count + 1,
                     !.sr = OrW(u.sr, UART_SR_RXNE)],
     nv |-> nv]

\* uart_incoming_char on the pair (uart, nvic); returns [u, nv]
uart_incoming_char(u, nv, c) ==
    IF u.rx_count >= UART_RX_BUFFER_SIZE THEN [u |-> u, nv |-> nv]
    ELSE [u |-> [u EXCEPT !.rx_buffer[u.rx_head] = c,
                          !.rx_head = (u.rx_head + 1) % UART_RX_BUFFER_SIZE,
                          !.rx_count = u.rx_count + 1,
                          !.sr = OrW(u.sr, UART_SR_RXNE)],
          nv |-> IF AndW(u.cr1, UART_CR1_RXNEIE) # 0 /\ AndW(u.cr1, UART_CR1_UE) # 0
                 THEN nvic_set_pending(nv, u.irq) ELSE nv]

\* uart_tick without its call of the output callback
uart_tick_silent(u, nv, out) ==
    IF u.tx_pending = 0 THEN [u |-> u, nv |-> nv, out |-> out]
    ELSE [u |-> [u EXCEPT !.tx_pending = 0,
                          !.sr = OrW(u.sr, UART_SR_TXE + UART_SR_TC)],
          nv |-> nv, out |-> out]

\* uart_tick on (uart, nvic, output sink); returns [u, nv, out]
uart_tick(u, nv, out) ==
    IF u.tx_pending = 0 THEN [u |-> u, nv |-> nv, out |-> out]
    ELSE [u |-> [u EXCEPT !.tx_pending = 0,
                          !.sr = OrW(u.sr, UART_SR_TXE + UART_SR_TC)],
          nv |-> IF AndW(u.cr1, UART_CR1_TXEIE) # 0 /\ AndW(u.cr1, UART_CR1_UE) # 0
                 THEN nvic_set_pending(nv, u.irq) ELSE nv,
          out |-> Append(out, u.tx_char)]

(***************************************************************************)
(* Bus                                                                     *)
(***************************************************************************)
BUS_MAX_REGIONS == 16

\* bus_register_region: the region's (ctx, read_fn, write_fn) is named by dev
bus_register_region(b, base, size, dev) ==
    IF Len(b) >= BUS_MAX_REGIONS THEN [st |-> STATUS_ERROR, bus |-> b]
    ELSE [st |-> STATUS_OK, bus |-> Append(b, [base |-> base, size |-> size, dev |-> dev])]

InRegion(r, addr) == ULe(r.base, addr) /\ ULt(addr, AddW(r.base, r.size))

\* index of the first region containing addr, 0 when there is none
RECURSIVE find_region_from(_, _, _)
find_region_from(b, addr, i) ==
    IF i > Len(b) THEN 0
    ELSE IF InRegion(b[i], addr) THEN i
    ELSE find_region_from(b, addr, i + 1)

\* find_region returning the last region containing addr instead of the first
find_region_last(b, addr) ==
    IF \E i \in 1 .. Len(b) : InRegion(b[i], addr)
    THEN CHOOSE i \in 1 .. Len(b) :
            InRegion(b[i], addr) /\ \A j \in (i + 1) .. Len(b) : ~InRegion(b[j], addr)
    ELSE 0

find_region(b, addr) == find_region_from(b, addr, 1)

\* A system value s gathers the subsystems an operation can touch:
\* [memory, nvic, bus, core, timer, uart, out, handlers]; handlers is the history
\* of exception entries not yet returned from (kept for the properties only)

\* the value bus_read returns
\* r->read(r->ctx, addr - r->base, size) for region i (0: none)
RegionRead(s, i, addr, size) ==
    IF i = 0 THEN 0
    ELSE LET r == s.bus[i]
             off == SubW(addr, r.base)
         IN  CASE r.dev = "flash" -> memory_flash_read(s.memory, off, size)
               [] r.dev = "sram"  -> memory_sram_read(s.memory, off, size)
               [] r.dev = "timer" -> timer_read(s.timer, off, size)
               [] r.dev = "uart"  -> uart_read_val(s.uart, off, size)
               [] OTHER -> 0

bus_read(s, addr, size) == RegionRead(s, find_region(s.bus, addr), addr, size)

\* the system bus_read leaves (only a UART DR read changes state)
RegionReadEff(s, i, addr, size) ==
    IF i = 0 THEN s
    ELSE IF s.bus[i].dev = "uart"
         THEN [s EXCEPT !.uart = uart_read_eff(s.uart, SubW(addr, s.bus[i].base), size)]
         ELSE s

bus_read_eff(s, addr, size) == RegionReadEff(s, find_region(s.bus, addr), addr, size)

\* bus_write: [st, s]
\* the system after a device write returned w
WroteMemory(s, w) == [st |-> w.st, s |-> [s EXCEPT !.memory = w.mem]]
WroteTimer(s, w) == [st |-> w.st, s |-> [s EXCEPT !.timer = w.tim]]
WroteUart(s, w) == [st |-> w.st, s |-> [s EXCEPT !.uart = w.u]]

\* r->write(r->ctx, addr - r->base, value, size) for region i (0: none)
RegionWrite(s, i, addr, value, size) ==
    IF i = 0 THEN [st |-> STATUS_INVALID_ADDRESS, s |-> s]
    ELSE LET r == s.bus[i]
             off == SubW(addr, r.base)
         IN  CASE r.dev = "flash" -> WroteMemory(s, memory_flash_write(s.memory, off, value, size))
               [] r.dev = "sram"  -> WroteMemory(s, memory_sram_write(s.memory, off, value, size))
               [] r.dev = "timer" -> WroteTimer(s, timer_write(s.timer, off, value, size))
               [] r.dev = "uart"  -> WroteUart(s, uart_write(s.uart, off, value, size))
               [] OTHER -> [st |-> STATUS_INVALID_ADDRESS, s |-> s]

\* bus_write returning STATUS_OK for an address in no region
bus_write_unmapped_ok(s, addr, value, size) ==
    IF find_region(s.bus, addr) = 0 THEN [st |-> STATUS_OK, s |-> s]
    ELSE RegionWrite(s, find_region(s.bus, addr), addr, value, size)

bus_write(s, addr, value, size) ==
    RegionWrite(s, find_region(s.bus, addr), addr, value, size)

(***************************************************************************)
(* Core: registers, flags                                                  *)
(***************************************************************************)
REG_SP == 13
REG_LR == 14
REG_PC == 15
XPSR_N == MinInt
XPSR_Z == 1073741824
XPSR_C == 536870912
XPSR_V == 268435456
EXC_RETURN_THREAD_MSP == -7

\* IS_EXC_RETURN(val): (val & 0xFFFFFFF0) == 0xFFFFFFF0
IS_EXC_RETURN(val) == AndW(val, -16) = -16

R(s, n) == s.core.r[n]
SetR(s, n, v) == [s EXCEPT !.core.r[n] = v]

\* instr bits [lo .. lo+n-1]
Field(instr, lo, n) == (instr \div (2 ^ lo)) % (2 ^ n)

\* value & ~1U
ClearBit0(v) == v - (v % 2)

\* the xPSR update_nz leaves
update_nz(xpsr, result) ==
    LET x0 == AndW(xpsr, NotW(OrW(XPSR_N, XPSR_Z)))
        x1 == IF result = 0 THEN OrW(x0, XPSR_Z) ELSE x0
    IN  IF result < 0 THEN OrW(x1, XPSR_N) ELSE x1

set_flag(xpsr, flag, cond) ==
    IF cond THEN OrW(xpsr, flag) ELSE AndW(xpsr, NotW(flag))

\* bit 31 of x ^ y
XorSign(x, y) == (x < 0) # (y < 0)

update_flags_add(xpsr, a, b, result) ==
    set_flag(set_flag(update_nz(xpsr, result),
                      XPSR_C, ULt(result, a) \/ ULt(result, b)),
             XPSR_V, (~XorSign(a, b)) /\ XorSign(a, result))

update_flags_sub(xpsr, a, b, result) ==
    set_flag(set_flag(update_nz(xpsr, result),
                      XPSR_C, ULe(b, a)),
             XPSR_V, XorSign(a, b) /\ XorSign(a, result))

condition_passed(xpsr, cond) ==
    LET n == Bit(xpsr, 31)
        z == Bit(xpsr, 30)
        c == Bit(xpsr, 29)
        v == Bit(xpsr, 28)
    IN  CASE cond = 0 -> z = 1
          [] cond = 1 -> z = 0
          [] cond = 2 -> c = 1
          [] cond = 3 -> c = 0
          [] cond = 4 -> n = 1
          [] cond = 5 -> n = 0
          [] cond = 6 -> v = 1
          [] cond = 7 -> v = 0
          [] cond = 8 -> c = 1 /\ z = 0
          [] cond = 9 -> c = 0 \/ z = 1
          [] cond = 10 -> n = v
          [] cond = 11 -> n # v
          [] cond = 12 -> z = 0 /\ n = v
          [] cond = 13 -> z = 1 \/ n # v
          [] cond = 14 -> TRUE
          [] OTHER -> FALSE

(***************************************************************************)
(* Core: exception entry and exit                                          *)
(***************************************************************************)
\* the eight frame words in stacking order: R0, R1, R2, R3, R12, LR, PC, xPSR
FrameWords(s) ==
    <<R(s, 0), R(s, 1), R(s, 2), R(s, 3), R(s, 12), R(s, REG_LR), R(s, REG_PC), s.core.xpsr>>

\* bus_write of words k..8 of the frame, each status discarded
RECURSIVE StackFrame(_, _, _, _)
StackFrame(s, frame, words, k) ==
    IF k > 8 THEN s
    ELSE StackFrame(bus_write(s, AddW(frame, 4 * (k - 1)), words[k], 4).s, frame, words, k + 1)

\* the end of enter_exception: s3 has the frame stacked, LR and PC set;
\* rec is the record of this entry kept in handlers
Acknowledged(s3, irq, rec) ==
    [s3 EXCEPT !.nvic = nvic_acknowledge(@, irq),
               !.core.current_irq = irq + 1,
               !.handlers = Append(@, rec)]

\* the vector fetch of enter_exception: s2 has the frame stacked and LR set
Vectored(s2, vector_addr) ==
    SetR(bus_read_eff(s2, vector_addr, 4), REG_PC, ClearBit0(bus_read(s2, vector_addr, 4)))

\* the stacking of enter_exception: SP -= 32, the eight words, LR = EXC_RETURN
Stacked(s, frame) ==
    SetR(StackFrame(SetR(s, REG_SP, frame), frame, FrameWords(s), 1),
         REG_LR, EXC_RETURN_THREAD_MSP)

enter_exception(s, irq) ==
    Acknowledged(Vectored(Stacked(s, SubW(R(s, REG_SP), 32)), (16 + irq) * 4), irq,
                 [irq |-> irq, words |-> FrameWords(s), sp |-> R(s, REG_SP),
                  active |-> {i \in IrqRange : s.nvic.active[i] # 0},
                  prio |-> s.nvic.current_priority])

\* the completion step of exit_exception
exit_complete(s) ==
    IF s.core.current_irq > 0
    THEN [s EXCEPT !.nvic = nvic_complete(s.nvic, s.core.current_irq - 1),
                   !.core.current_irq = 0]
    ELSE [s EXCEPT !.core.current_irq = 0]

\* bus_read of frame words k..7 in order; acc gathers the values read
RECURSIVE UnstackFrame(_, _, _, _)
UnstackFrame(s, frame, k, acc) ==
    IF k > 7 THEN [s |-> s, words |-> acc]
    ELSE UnstackFrame(bus_read_eff(s, AddW(frame, 4 * k), 4), frame, k + 1,
                      Append(acc, bus_read(s, AddW(frame, 4 * k), 4)))

\* the register restore had it left SP at the last word of the frame
RestoredShortOfFrame(u, frame) ==
    [u.s EXCEPT !.core.r = [n \in 0 .. 15 |->
                    CASE n = 0 -> u.words[1]
                      [] n = 1 -> u.words[2]
                      [] n = 2 -> u.words[3]
                      [] n = 3 -> u.words[4]
                      [] n = 12 -> u.words[5]
                      [] n = REG_LR -> u.words[6]
                      [] n = REG_PC -> u.words[7]
                      [] n = REG_SP -> AddW(frame, 28)
                      [] OTHER -> u.s.core.r[n]],
                !.core.xpsr = u.words[8]]

\* the register restore of exit_exception from the words u read at frame
Restored(u, frame) ==
    [u.s EXCEPT !.core.r = [n \in 0 .. 15 |->
                    CASE n = 0 -> u.words[1]
                      [] n = 1 -> u.words[2]
                      [] n = 2 -> u.words[3]
                      [] n = 3 -> u.words[4]
                      [] n = 12 -> u.words[5]
                      [] n = REG_LR -> u.words[6]
                      [] n = REG_PC -> u.words[7]
                      [] n = REG_SP -> AddW(frame, 32)
                      [] OTHER -> u.s.core.r[n]],
                !.core.xpsr = u.words[8]]

\* the end of exit_exception: s1 has the registers restored; the innermost
\* handler record leaves handlers and is kept with the restored registers
Completed(s1) ==
    [exit_complete(s1) EXCEPT
        !.handlers = IF Len(@) = 0 THEN @ ELSE SubSeq(@, 1, Len(@) - 1),
        !.returned = IF Len(s1.handlers) = 0 THEN << >>
                     ELSE <<[from |-> s1.handlers[Len(s1.handlers)],
                             words |-> FrameWords(s1), sp |-> R(s1, REG_SP)]>>]

exit_exception(s) ==
    Completed(Restored(UnstackFrame(s, R(s, REG_SP), 0, << >>), R(s, REG_SP)))

(***************************************************************************)
(* Core: instruction handlers.  A handler yields                           *)
(*   [s: the system it leaves, st: the Status it returns,                  *)
(*    pcw: pc_written, wst: the Status of its last bus_write]              *)
(***************************************************************************)
Done(s) == [s |-> s, st |-> STATUS_OK, pcw |-> 0, wst |-> STATUS_OK]
Jumped(s) == [s |-> s, st |-> STATUS_OK, pcw |-> 1, wst |-> STATUS_OK]

\* a handler whose whole effect is one bus_write with the status dropped
StoredResult(w) == [s |-> w.s, st |-> STATUS_OK, pcw |-> 0, wst |-> w.st]

Stored(s, addr, value, size) == StoredResult(bus_write(s, addr, value, size))

\* a handler whose whole effect is R(rd) = bus_read(addr, size)
Loaded(s, rd, addr, size) ==
    Done(SetR(bus_read_eff(s, addr, size), rd, bus_read(s, addr, size)))

SetXpsr(s, x) == [s EXCEPT !.core.xpsr = x]

exec_add_reg(s, instr) ==
    LET rd == Field(instr, 0, 3)
        rn == Field(instr, 3, 3)
        rm == Field(instr, 6, 3)
        result == AddW(R(s, rn), R(s, rm))
    IN  Done(SetR(SetXpsr(s, update_flags_add(s.core.xpsr, R(s, rn), R(s, rm), result)), rd, result))

exec_sub_reg(s, instr) ==
    LET rd == Field(instr, 0, 3)
        rn == Field(instr, 3, 3)
        rm == Field(instr, 6, 3)
        result == SubW(R(s, rn), R(s, rm))
    IN  Done(SetR(SetXpsr(s, update_flags_sub(s.core.xpsr, R(s, rn), R(s, rm), result)), rd, result))

exec_add_imm3(s, instr) ==
    LET rd == Field(instr, 0, 3)
        rn == Field(instr, 3, 3)
        imm3 == Field(instr, 6, 3)
        result == AddW(R(s, rn), imm3)
    IN  Done(SetR(SetXpsr(s, update_flags_add(s.core.xpsr, R(s, rn), imm3, result)), rd, result))

exec_sub_imm3(s, instr) ==
    LET rd == Field(instr, 0, 3)
        rn == Field(instr, 3, 3)
        imm3 == Field(instr, 6, 3)
        result == SubW(R(s, rn), imm3)
    IN  Done(SetR(SetXpsr(s, update_flags_sub(s.core.xpsr, R(s, rn), imm3, result)), rd, result))

exec_mov_imm(s, instr) ==
    LET rd == Field(instr, 8, 3)
        imm8 == Field(instr, 0, 8)
    IN  Done(SetXpsr(SetR(s, rd, imm8), update_nz(s.core.xpsr, imm8)))

exec_cmp_imm(s, instr) ==
    LET rn == Field(instr, 8, 3)
        imm8 == Field(instr, 0, 8)
        result == SubW(R(s, rn), imm8)
    IN  Done(SetXpsr(s, update_flags_sub(s.core.xpsr, R(s, rn), imm8, result)))

exec_add_imm8(s, instr) ==
    LET rd == Field(instr, 8, 3)
        imm8 == Field(instr, 0, 8)
        result == AddW(R(s, rd), imm8)
    IN  Done(SetR(SetXpsr(s, update_flags_add(s.core.xpsr, R(s, rd), imm8, result)), rd, result))

exec_sub_imm8(s, instr) ==
    LET rd == Field(instr, 8, 3)
        imm8 == Field(instr, 0, 8)
        result == SubW(R(s, rd), imm8)
    IN  Done(SetR(SetXpsr(s, update_flags_sub(s.core.xpsr, R(s, rd), imm8, result)), rd, result))

exec_cmp_reg(s, instr) ==
    LET rn == Field(instr, 0, 3)
        rm == Field(instr, 3, 3)
        result == SubW(R(s, rn), R(s, rm))
    IN  Done(SetXpsr(s, update_flags_sub(s.core.xpsr, R(s, rn), R(s, rm), result)))

\* rd of the hi-register forms: ((instr >> 4) & 0x8) | (instr & 0x7)
HiRd(instr) == 8 * Field(instr, 7, 1) + Field(instr, 0, 3)

exec_add_hireg(s, instr) ==
    LET rd == HiRd(instr)
        rm == Field(instr, 3, 4)
        sum == AddW(R(s, rd), R(s, rm))
    IN  IF rd = REG_PC THEN Jumped(SetR(s, rd, ClearBit0(sum)))
        ELSE Done(SetR(s, rd, sum))

exec_cmp_hireg(s, instr) ==
    LET rn == HiRd(instr)
        rm == Field(instr, 3, 4)
        result == SubW(R(s, rn), R(s, rm))
    IN  Done(SetXpsr(s, update_flags_sub(s.core.xpsr, R(s, rn), R(s, rm), result)))

exec_mov_hireg(s, instr) ==
    LET rd == HiRd(instr)
        rm == Field(instr, 3, 4)
    IN  IF rd = REG_PC THEN Jumped(SetR(s, rd, ClearBit0(R(s, rm))))
        ELSE Done(SetR(s, rd, R(s, rm)))

exec_bx(s, instr) ==
    LET rm == Field(instr, 3, 4)
        target == R(s, rm)
    IN  IF IS_EXC_RETURN(target) THEN Jumped(exit_exception(s))
        ELSE Jumped(SetR(s, REG_PC, ClearBit0(target)))

\* (R(PC) + 4) & ~3U
AlignedPc(s) == LET v == AddW(R(s, REG_PC), 4) IN v - (v % 4)

exec_ldr_pc(s, instr) ==
    Loaded(s, Field(instr, 8, 3), AddW(AlignedPc(s), 4 * Field(instr, 0, 8)), 4)

\* R(rn) + R(rm) of the register-offset forms
RegOffsetAddr(s, instr) == AddW(R(s, Field(instr, 3, 3)), R(s, Field(instr, 6, 3)))

exec_str_reg(s, instr) ==
    Stored(s, RegOffsetAddr(s, instr), R(s, Field(instr, 0, 3)), 4)

exec_strh_reg(s, instr) ==
    Stored(s, RegOffsetAddr(s, instr), AndW(R(s, Field(instr, 0, 3)), 65535), 2)

exec_strb_reg(s, instr) ==
    Stored(s, RegOffsetAddr(s, instr), AndW(R(s, Field(instr, 0, 3)), 255), 1)

exec_ldr_reg(s, instr) == Loaded(s, Field(instr, 0, 3), RegOffsetAddr(s, instr), 4)
exec_ldrh_reg(s, instr) == Loaded(s, Field(instr, 0, 3), RegOffsetAddr(s, instr), 2)
exec_ldrb_reg(s, instr) == Loaded(s, Field(instr, 0, 3), RegOffsetAddr(s, instr), 1)

\* R(rn) + (imm5 << shift) of the immediate-offset forms
ImmOffsetAddr(s, instr, shift) ==
    AddW(R(s, Field(instr, 3, 3)), Field(instr, 6, 5) * (2 ^ shift))

exec_str_imm(s, instr) ==
    Stored(s, ImmOffsetAddr(s, instr, 2), R(s, Field(instr, 0, 3)), 4)

exec_ldr_imm(s, instr) == Loaded(s, Field(instr, 0, 3), ImmOffsetAddr(s, instr, 2), 4)

exec_strb_imm(s, instr) ==
    Stored(s, ImmOffsetAddr(s, instr, 0), AndW(R(s, Field(instr, 0, 3)), 255), 1)

exec_ldrb_imm(s, instr) == Loaded(s, Field(instr, 0, 3), ImmOffsetAddr(s, instr, 0), 1)

exec_strh_imm(s, instr) ==
    Stored(s, ImmOffsetAddr(s, instr, 1), AndW(R(s, Field(instr, 0, 3)), 65535), 2)

exec_ldrh_imm(s, instr) == Loaded(s, Field(instr, 0, 3), ImmOffsetAddr(s, instr, 1), 2)

exec_str_sp(s, instr) ==
    Stored(s, AddW(R(s, REG_SP), 4 * Field(instr, 0, 8)), R(s, Field(instr, 8, 3)), 4)

exec_ldr_sp(s, instr) ==
    Loaded(s, Field(instr, 8, 3), AddW(R(s, REG_SP), 4 * Field(instr, 0, 8)), 4)

exec_adr(s, instr) ==
    Done(SetR(s, Field(instr, 8, 3), AddW(AlignedPc(s), 4 * Field(instr, 0, 8))))

exec_add_sp_imm_rd(s, instr) ==
    Done(SetR(s, Field(instr, 8, 3), AddW(R(s, REG_SP), 4 * Field(instr, 0, 8))))

exec_adjust_sp(s, instr) ==
    LET imm7 == 4 * Field(instr, 0, 7)
    IN  IF Field(instr, 7, 1) = 1 THEN Done(SetR(s, REG_SP, SubW(R(s, REG_SP), imm7)))
        ELSE Done(SetR(s, REG_SP, AddW(R(s, REG_SP), imm7)))

\* the registers 0..7 named by rlist, ascending
RECURSIVE RegList(_, _)
RegList(rlist, i) ==
    IF i > 7 THEN << >>
    ELSE (IF Field(rlist, i, 1) = 1 THEN <<i>> ELSE << >>) \o RegList(rlist, i + 1)

\* the store loop of exec_push: regs[k..] to addr upward; wst is the first
\* non-Ok status a bus_write of the loop returned
RECURSIVE PushLoop(_, _, _, _, _), PushNext(_, _, _, _, _)
PushLoop(w, regs, k, addr, wst) ==
    IF k > Len(regs) THEN [s |-> w.s, wst |-> wst]
    ELSE PushNext(bus_write(w.s, addr, R(w.s, regs[k]), 4), regs, k, addr, wst)

\* w is what the bus_write of regs[k] returned
PushNext(w, regs, k, addr, wst) ==
    PushLoop(w, regs, k + 1, AddW(addr, 4), IF wst = STATUS_OK THEN w.st ELSE wst)

\* the registers exec_push stores, ascending, LR last
PushRegs(instr) ==
    RegList(Field(instr, 0, 8), 0) \o (IF Field(instr, 8, 1) = 1 THEN <<REG_LR>> ELSE << >>)

Pushed(p) == [s |-> p.s, st |-> STATUS_OK, pcw |-> 0, wst |-> p.wst]

PushTo(s, regs, sp) ==
    Pushed(PushLoop([s |-> SetR(s, REG_SP, sp)], regs, 1, sp, STATUS_OK))

exec_push(s, instr) ==
    PushTo(s, PushRegs(instr), SubW(R(s, REG_SP), 4 * Len(PushRegs(instr))))

\* the load loop of exec_pop: regs[k..] from addr upward
RECURSIVE PopLoop(_, _, _, _)
PopLoop(s, regs, k, addr) ==
    IF k > Len(regs) THEN s
    ELSE PopLoop(SetR(bus_read_eff(s, addr, 4), regs[k], bus_read(s, addr, 4)),
                 regs, k + 1, AddW(addr, 4))

\* the load_pc branch of exec_pop: val was read at addr, s2 is the system after the read
PopPc(s2, val, addr) ==
    IF IS_EXC_RETURN(val)
    THEN Jumped(exit_exception(SetR(s2, REG_SP, AddW(addr, 4))))
    ELSE Jumped(SetR(SetR(s2, REG_PC, ClearBit0(val)), REG_SP, AddW(addr, 4)))

\* exec_pop after the register loop left s1 with addr the next stack slot
Popped(s1, addr, load_pc) ==
    IF load_pc = 1
    THEN PopPc(bus_read_eff(s1, addr, 4), bus_read(s1, addr, 4), addr)
    ELSE Done(SetR(s1, REG_SP, addr))

exec_pop(s, instr) ==
    Popped(PopLoop(s, RegList(Field(instr, 0, 8), 0), 1, R(s, REG_SP)),
           AddW(R(s, REG_SP), 4 * Len(RegList(Field(instr, 0, 8), 0))),
           Field(instr, 8, 1))

exec_b_cond(s, instr) ==
    LET cond == Field(instr, 8, 4)
    IN  IF cond = 15 THEN Done(s)
        ELSE IF condition_passed(s.core.xpsr, cond)
             THEN Jumped(SetR(s, REG_PC,
                    AddW(AddW(R(s, REG_PC), 4), 2 * sign_extend(Field(instr, 0, 8), 8))))
             ELSE Done(s)

exec_svc(s, instr) == Done(s)

exec_b(s, instr) ==
    Jumped(SetR(s, REG_PC,
        AddW(AddW(R(s, REG_PC), 4), 2 * sign_extend(Field(instr, 0, 11), 11))))

exec_nop(s, instr) == Done(s)

(***************************************************************************)
(* Core: dispatch                                                          *)
(***************************************************************************)
instr_table ==
    << <<65535, 48896, "NOP">>,
       <<65472, 16384, "AND">>, <<65472, 16448, "EOR">>, <<65472, 16512, "LSL">>,
       <<65472, 16576, "LSR">>, <<65472, 16640, "ASR">>, <<65472, 16704, "ADC">>,
       <<65472, 16768, "SBC">>, <<65472, 16832, "ROR">>, <<65472, 16896, "TST">>,
       <<65472, 16960, "NEG">>, <<65472, 17024, "CMP">>, <<65472, 17088, "CMN">>,
       <<65472, 17152, "ORR">>, <<65472, 17216, "MUL">>, <<65472, 17280, "BIC">>,
       <<65472, 17344, "MVN">>,
       <<65408, 18176, "BX">>, <<65280, 17408, "ADD hi">>, <<65280, 17664, "CMP hi">>,
       <<65280, 17920, "MOV hi">>,
       <<65280, 57088, "SVC">>,
       <<65280, 45056, "ADD/SUB SP">>,
       <<65024, 6144, "ADD reg">>, <<65024, 6656, "SUB reg">>,
       <<65024, 7168, "ADD imm3">>, <<65024, 7680, "SUB imm3">>,
       <<65024, 20480, "STR reg">>, <<65024, 20992, "STRH reg">>,
       <<65024, 21504, "STRB reg">>, <<65024, 22016, "LDRSB reg">>,
       <<65024, 22528, "LDR reg">>, <<65024, 23040, "LDRH reg">>,
       <<65024, 23552, "LDRB reg">>, <<65024, 24064, "LDRSH reg">>,
       <<65024, 46080, "PUSH">>, <<65024, 48128, "POP">>,
       <<63488, 0, "LSL imm">>, <<63488, 2048, "LSR imm">>, <<63488, 4096, "ASR imm">>,
       <<63488, 8192, "MOV imm">>, <<63488, 10240, "CMP imm">>,
       <<63488, 12288, "ADD imm8">>, <<63488, 14336, "SUB imm8">>,
       <<63488, 18432, "LDR PC">>,
       <<63488, 24576, "STR imm">>, <<63488, 26624, "LDR imm">>,
       <<63488, 28672, "STRB imm">>, <<63488, 30720, "LDRB imm">>,
       <<63488, 32768, "STRH imm">>, <<63488, 34816, "LDRH imm">>,
       <<63488, 36864, "STR SP">>, <<63488, 38912, "LDR SP">>,
       <<63488, 40960, "ADR">>, <<63488, 43008, "ADD SP imm">>,
       <<61440, 53248, "B<cond>">>,
       <<63488, 57344, "B">> >>

\* the handlers of instr_table this model carries out; the shift, logical,
\* multiply and sign-extending load handlers are matched but not executed
ModelledHandlers ==
    {"NOP", "CMP", "BX", "ADD hi", "CMP hi", "MOV hi", "SVC", "ADD/SUB SP",
     "ADD reg", "SUB reg", "ADD imm3", "SUB imm3",
     "STR reg", "STRH reg", "STRB reg", "LDR reg", "LDRH reg", "LDRB reg",
     "PUSH", "POP", "MOV imm", "CMP imm", "ADD imm8", "SUB imm8", "LDR PC",
     "STR imm", "LDR imm", "STRB imm", "LDRB imm", "STRH imm", "LDRH imm",
     "STR SP", "LDR SP", "ADR", "ADD SP imm", "B<cond>", "B"}

\* entry->handler(core, instr)
CallHandler(name, s, instr) ==
    CASE name = "NOP" -> exec_nop(s, instr)
      [] name = "CMP" -> exec_cmp_reg(s, instr)
      [] name = "BX" -> exec_bx(s, instr)
      [] name = "ADD hi" -> exec_add_hireg(s, instr)
      [] name = "CMP hi" -> exec_cmp_hireg(s, instr)
      [] name = "MOV hi" -> exec_mov_hireg(s, instr)
      [] name = "SVC" -> exec_svc(s, instr)
      [] name = "ADD/SUB SP" -> exec_adjust_sp(s, instr)
      [] name = "ADD reg" -> exec_add_reg(s, instr)
      [] name = "SUB reg" -> exec_sub_reg(s, instr)
      [] name = "ADD imm3" -> exec_add_imm3(s, instr)
      [] name = "SUB imm3" -> exec_sub_imm3(s, instr)
      [] name = "STR reg" -> exec_str_reg(s, instr)
      [] name = "STRH reg" -> exec_strh_reg(s, instr)
      [] name = "STRB reg" -> exec_strb_reg(s, instr)
      [] name = "LDR reg" -> exec_ldr_reg(s, instr)
      [] name = "LDRH reg" -> exec_ldrh_reg(s, instr)
      [] name = "LDRB reg" -> exec_ldrb_reg(s, instr)
      [] name = "PUSH" -> exec_push(s, instr)
      [] name = "POP" -> exec_pop(s, instr)
      [] name = "MOV imm" -> exec_mov_imm(s, instr)
      [] name = "CMP imm" -> exec_cmp_imm(s, instr)
      [] name = "ADD imm8" -> exec_add_imm8(s, instr)
      [] name = "SUB imm8" -> exec_sub_imm8(s, instr)
      [] name = "LDR PC" -> exec_ldr_pc(s, instr)
      [] name = "STR imm" -> exec_str_imm(s, instr)
      [] name = "LDR imm" -> exec_ldr_imm(s, instr)
      [] name = "STRB imm" -> exec_strb_imm(s, instr)
      [] name = "LDRB imm" -> exec_ldrb_imm(s, instr)
      [] name = "STRH imm" -> exec_strh_imm(s, instr)
      [] name = "LDRH imm" -> exec_ldrh_imm(s, instr)
      [] name = "STR SP" -> exec_str_sp(s, instr)
      [] name = "LDR SP" -> exec_ldr_sp(s, instr)
      [] name = "ADR" -> exec_adr(s, instr)
      [] name = "ADD SP imm" -> exec_add_sp_imm_rd(s, instr)
      [] name = "B<cond>" -> exec_b_cond(s, instr)
      [] name = "B" -> exec_b(s, instr)

\* (instr & entry->mask) == entry->pattern for entry i
Matches(instr, i) == AndN(instr, instr_table[i][1]) = instr_table[i][2]

\* index of the first entry among lo .. hi of instr_table matching instr, 0 when
\* there is none; first is the result for the entries before mid
\* (the table is searched in order, the range split in two to stay shallow)
RECURSIVE LookupRange(_, _, _), LookupRest(_, _, _, _)
LookupRange(instr, lo, hi) ==
    IF hi < lo THEN 0
    ELSE IF hi = lo THEN (IF Matches(instr, lo) THEN lo ELSE 0)
    ELSE LookupRest(LookupRange(instr, lo, (lo + hi) \div 2), instr, (lo + hi) \div 2 + 1, hi)

LookupRest(first, instr, lo, hi) ==
    IF first # 0 THEN first ELSE LookupRange(instr, lo, hi)

\* index of the first entry of instr_table matching instr, 0 at the sentinel
\* the scan of instr_table had the last matching entry won
LookupLastMatch(instr) ==
    LET m == {i \in 1 .. Len(instr_table) : Matches(instr, i)}
    IN  IF m = {} THEN 0 ELSE CHOOSE i \in m : \A j \in m : j <= i

Lookup(instr) == LookupRange(instr, 1, Len(instr_table))

\* the two tests of core_step for a 32-bit encoding
Is32Bit(instr) == AndN(instr, 57344) = 57344 /\ AndN(instr, 6144) # 0

execute_32bit(s, hw1, hw2) ==
    IF AndN(hw1, 63488) = 61440 /\ AndN(hw2, 53248) = 53248
    THEN LET S == Field(hw1, 10, 1)
             J1 == Field(hw2, 13, 1)
             J2 == Field(hw2, 11, 1)
             I1 == IF J1 = S THEN 1 ELSE 0
             I2 == IF J2 = S THEN 1 ELSE 0
             raw == S * 16777216 + I1 * 8388608 + I2 * 4194304
                    + Field(hw1, 0, 10) * 4096 + Field(hw2, 0, 11) * 2
             offset == sign_extend(raw, 25)
             pc4 == AddW(R(s, REG_PC), 4)
         IN  Jumped(SetR(SetR(s, REG_LR, OrW(pc4, 1)), REG_PC, AddW(pc4, offset)))
    ELSE [s |-> s, st |-> STATUS_INVALID_INSTRUCTION, pcw |-> 0, wst |-> STATUS_OK]

\* the instruction core_step would fetch at PC: [instr, is32, entry]
Decode(instr) ==
    [instr |-> instr, is32 |-> Is32Bit(instr),
     entry |-> IF Is32Bit(instr) THEN 0 ELSE Lookup(instr)]

Fetch(s) == Decode(AndW(bus_read(s, R(s, REG_PC), 2), 65535))

\* the PC update after a handler returned x: PC += len unless pc_written
AdvancePc(x, len) ==
    IF x.st # STATUS_OK THEN x
    ELSE IF x.pcw = 0
         THEN [x EXCEPT !.s = SetR(x.s, REG_PC, AddW(R(x.s, REG_PC), len))]
         ELSE x

\* decode and execute of the halfword f fetched at pc; s0 is the system after the fetch
Execute(s0, pc, f) ==
    IF f.is32
    THEN AdvancePc(execute_32bit(bus_read_eff(s0, AddW(pc, 2), 2), f.instr,
                                 AndW(bus_read(s0, AddW(pc, 2), 2), 65535)), 4)
    ELSE IF f.entry = 0
         THEN [s |-> s0, st |-> STATUS_INVALID_INSTRUCTION, pcw |-> 0, wst |-> STATUS_OK]
         ELSE AdvancePc(CallHandler(instr_table[f.entry][3], s0, f.instr), 2)

\* fetch, decode and execute of core_step: the handler's result, with PC advanced
ExecuteInstr(s) == Execute(bus_read_eff(s, R(s, REG_PC), 2), R(s, REG_PC), Fetch(s))

\* the interrupt check that ends core_step: [s, entered]
TakePending(s, g) ==
    IF g.found = 1
    THEN [s |-> enter_exception(s, g.best_irq), entered |-> g.best_irq + 1]
    ELSE [s |-> s, entered |-> 0]

CheckInterrupts(s) ==
    IF s.core.interruptible # 0
    THEN TakePending(s, nvic_get_pending_irq(s.nvic))
    ELSE [s |-> s, entered |-> 0]

\* the end of core_step: c is what the interrupt check left
AfterInterrupts(c, wst) ==
    [s |-> c.s, st |-> STATUS_OK, entered |-> c.entered, wst |-> wst]

\* AfterExecute had CYCLES++ been skipped by a step that enters an exception
AfterExecuteNotCountingEntry(x) ==
    IF x.st # STATUS_OK
    THEN [s |-> x.s, st |-> x.st, entered |-> 0, wst |-> x.wst]
    ELSE IF CheckInterrupts(x.s).entered # 0
         THEN AfterInterrupts(CheckInterrupts(x.s), x.wst)
         ELSE AfterInterrupts(CheckInterrupts([x.s EXCEPT !.core.cycles = @ + 1]), x.wst)

\* core_step once the instruction has run with result x
AfterExecute(x) ==
    IF x.st # STATUS_OK
    THEN [s |-> x.s, st |-> x.st, entered |-> 0, wst |-> x.wst]
    ELSE AfterInterrupts(CheckInterrupts([x.s EXCEPT !.core.cycles = @ + 1]), x.wst)

\* core_step: [s, st, entered, wst]
core_step(s) == AfterExecute(ExecuteInstr(s))

core_reset(s) ==
    LET cleared == [s EXCEPT !.core = [r |-> [n \in 0 .. 15 |-> 0], xpsr |-> 0,
                                       thumb_mode |-> 1, interruptible |-> 1,
                                       current_irq |-> 0, cycles |-> 0]]
        sp == bus_read(cleared, 0, 4)
        s1 == bus_read_eff(cleared, 0, 4)
        pc == ClearBit0(bus_read(s1, 4, 4))
    IN  SetR(SetR(bus_read_eff(s1, 4, 4), REG_SP, sp), REG_PC, pc)

(***************************************************************************)
(* Debugger                                                                *)
(***************************************************************************)
DEBUGGER_MAX_BREAKPOINTS == 64

\* index of the first breakpoint equal to addr, 0 when there is none
RECURSIVE BreakpointIndex(_, _, _)
BreakpointIndex(dbg, addr, i) ==
    IF i > Len(dbg) THEN 0
    ELSE IF dbg[i] = addr THEN i
    ELSE BreakpointIndex(dbg, addr, i + 1)

\* [rc, dbg]
debugger_add_breakpoint(dbg, addr) ==
    IF BreakpointIndex(dbg, addr, 1) # 0 THEN [rc |-> 0, dbg |-> dbg]
    ELSE IF Len(dbg) >= DEBUGGER_MAX_BREAKPOINTS THEN [rc |-> -1, dbg |-> dbg]
    ELSE [rc |-> 0, dbg |-> Append(dbg, addr)]

\* debugger_remove_breakpoint dropping the last entry instead of the one found
debugger_remove_breakpoint_last(dbg, addr) ==
    IF BreakpointIndex(dbg, addr, 1) = 0 THEN [rc |-> -1, dbg |-> dbg]
    ELSE [rc |-> 0, dbg |-> SubSeq(dbg, 1, Len(dbg) - 1)]

debugger_remove_breakpoint(dbg, addr) ==
    LET i == BreakpointIndex(dbg, addr, 1)
    IN  IF i = 0 THEN [rc |-> -1, dbg |-> dbg]
        ELSE [rc |-> 0, dbg |-> SubSeq(dbg, 1, i - 1) \o SubSeq(dbg, i + 1, Len(dbg))]

debugger_check(dbg, pc) == BreakpointIndex(dbg, pc, 1) # 0

(***************************************************************************)
(* Simulator                                                               *)
(***************************************************************************)
\* the system value of the current state
Sys ==
    [memory |-> memory, nvic |-> nvic, bus |-> bus, core |-> core,
     timer |-> timer, uart |-> uart, out |-> uart_out, handlers |-> handlers,
     returned |-> returned]

\* the registered tickable peripherals, in registration order
Peripherals == <<"timer", "uart">>

\* peripherals[i].tick(ctx)
TickOne(s, p) ==
    CASE p = "timer" -> LET k == timer_tick(s.timer, s.nvic)
                        IN  [s EXCEPT !.timer = k.tim, !.nvic = k.nv]
      [] p = "uart" -> LET k == uart_tick(s.uart, s.nvic, s.out)
                       IN  [s EXCEPT !.uart = k.u, !.nvic = k.nv, !.out = k.out]

\* step 1 of simulator_step: tick peripherals i.. in order
RECURSIVE TickAll(_, _)
TickAll(s, i) ==
    IF i > Len(Peripherals) THEN s ELSE TickAll(TickOne(s, Peripherals[i]), i + 1)

\* the end of simulator_step had the breakpoint branch not set halted
AfterCoreStepBreakNotHalting(c, dbg) ==
    IF c.st # STATUS_OK
    THEN [s |-> c.s, st |-> c.st, halted |-> 1, entered |-> c.entered, wst |-> c.wst]
    ELSE IF debugger_check(dbg, R(c.s, REG_PC))
         THEN [s |-> c.s, st |-> STATUS_BREAKPOINT_HIT, halted |-> 0,
               entered |-> c.entered, wst |-> c.wst]
         ELSE [s |-> c.s, st |-> STATUS_OK, halted |-> 0,
               entered |-> c.entered, wst |-> c.wst]

\* simulator_step on a system that is not halted:
\* [s, st, halted, entered, wst]
\* c is what core_step returned after the ticks
AfterCoreStep(c, dbg) ==
    IF c.st # STATUS_OK
    THEN [s |-> c.s, st |-> c.st, halted |-> 1, entered |-> c.entered, wst |-> c.wst]
    ELSE IF debugger_check(dbg, R(c.s, REG_PC))
         THEN [s |-> c.s, st |-> STATUS_BREAKPOINT_HIT, halted |-> 1,
               entered |-> c.entered, wst |-> c.wst]
         ELSE [s |-> c.s, st |-> STATUS_OK, halted |-> 0,
               entered |-> c.entered, wst |-> c.wst]

\* simulator_step had it run the instruction first and ticked afterwards
TickedAfter(c) == [c EXCEPT !.s = TickAll(c.s, 1)]

simulator_step_ticking_last(s, dbg) == AfterCoreStep(TickedAfter(core_step(s)), dbg)

simulator_step(s, dbg) == AfterCoreStep(core_step(TickAll(s, 1)), dbg)

\* the regions simulator_init registers, in order
InitBus ==
    LET b1 == bus_register_region(<< >>, 0, FLASH_SIZE, "flash").bus
        b2 == bus_register_region(b1, FLASH_BASE, FLASH_SIZE, "flash").bus
        b3 == bus_register_region(b2, SRAM_BASE, SRAM_SIZE, "sram").bus
        b4 == bus_register_region(b3, TIM2_BASE, TIM2_SIZE, "timer").bus
    IN  bus_register_region(b4, USART1_BASE, USART1_SIZE, "uart").bus

\* simulator_reset: peripherals, NVIC, Memory, Core
simulator_reset(s) ==
    core_reset([s EXCEPT !.timer = timer_reset(s.timer.irq),
                         !.uart = uart_reset(s.uart.irq),
                         !.nvic = nvic_reset(s.nvic),
                         !.memory = memory_reset(s.memory),
                         !.handlers = << >>,
                         !.returned = << >>])

(***************************************************************************)
(* Firmware images (the bytes memory_load_binary puts into Flash)          *)
(***************************************************************************)
\* The images are lists of <<size, offset, value>>: a halfword or word stored
\* little-endian at a Flash offset, as flash_write16 / flash_write32 of the tests
\* lay them out.  FlashOf(items) is the Flash byte map holding them.
ItemAt(items, o) ==
    CHOOSE k \in 1 .. Len(items) : items[k][2] <= o /\ o < items[k][2] + items[k][1]

ItemByte(items, o) == ByteOf(items[ItemAt(items, o)][3], o - items[ItemAt(items, o)][2])

ItemOffsets(items) ==
    UNION {items[k][2] .. (items[k][2] + items[k][1] - 1) : k \in 1 .. Len(items)}

FlashOf(items) ==
    [o \in {x \in ItemOffsets(items) : ItemByte(items, x) # 0} |-> ItemByte(items, o)]

\* vector table shared by the images: SP = 0x20004FF0, reset handler 0x08000081,
\* TIM2 (IRQ 28) handler 0x080000C1, USART1 (IRQ 37) handler 0x080000E1;
\* TIM2 handler: MOV R4,#1; BX LR.  USART1 handler: PUSH {LR}; POP {PC}
Vectors ==
    << <<4, 0, 536891376>>, <<4, 4, 134217857>>,
       <<4, 176, 134217921>>, <<4, 212, 134217953>>,
       <<2, 192, 9217>>, <<2, 194, 18288>>,
       <<2, 224, 46336>>, <<2, 226, 48384>> >>

\* 0x80: MOV R4,#0; 0x82: ADD R0,#1; 0x84: B 0x82
ImageLoop ==
    FlashOf(Vectors \o
        << <<2, 128, 9216>>, <<2, 130, 12289>>, <<2, 132, 59389>> >>)

\* 0x80: MOV R0,#0xAB; STR R0,[R1,#0]; STRB R0,[R1,R2]; LDR R3,[PC,#12];
\* 0x88: STRH R0,[R3,#0]; PUSH {R0}; STR R0,[SP,#0]; MOV SP,R1; PUSH {R0};
\* 0x92: 0xBF10 (no table entry); 0x94: .word 0x10000000
ImageStores ==
    FlashOf(Vectors \o
        << <<2, 128, 8363>>, <<2, 130, 24584>>, <<2, 132, 21640>>, <<2, 134, 19203>>,
           <<2, 136, 32792>>, <<2, 138, 46081>>, <<2, 140, 36864>>, <<2, 142, 18061>>,
           <<2, 144, 46081>>, <<2, 146, 48912>>, <<4, 148, 268435456>> >>)

\* 0x80: LDR R1,[PC,#12]; LDR R2,[PC,#16]; STR R2,[R1,#12]; MOV R0,#'Q';
\* 0x88: STR R0,[R1,#4]; LDR R3,[PC,#12]; LDR R5,[R3,#0x24]; B 0x8C
\* 0x90: .word 0x40013800, 0x00002008, 0x40000000
ImagePeriph ==
    FlashOf(Vectors \o
        << <<2, 128, 18691>>, <<2, 130, 18948>>, <<2, 132, 24778>>, <<2, 134, 8273>>,
           <<2, 136, 24648>>, <<2, 138, 19203>>, <<2, 140, 27229>>, <<2, 142, 59389>>,
           <<4, 144, 1073821696>>, <<4, 148, 8200>>, <<4, 152, 1073741824>> >>)

\* the main code of the timer test: 0x80: MOV R4,#0; 0x82: B .
ImageSpin ==
    FlashOf(Vectors \o << <<2, 128, 9216>>, <<2, 130, 59390>> >>)

\* the code of the breakpoint test: 0x80: MOV R0,#0; 0x82, 0x84, 0x86: ADD R0,#1;
\* 0x88: B .
ImageCount ==
    FlashOf(Vectors \o
        << <<2, 128, 8192>>, <<2, 130, 12289>>, <<2, 132, 12289>>, <<2, 134, 12289>>,
           <<2, 136, 59390>> >>)

(***************************************************************************)
(* Inputs of the environment                                               *)
(***************************************************************************)
\* the calls a host makes after loading and before stepping, as the
\* integration tests do: bus_write of a peripheral register, nvic_enable_irq,
\* nvic_set_priority
HostCall(s, c) ==
    CASE c[1] = "write"    -> bus_write(s, c[2], c[3], 4).s
      [] c[1] = "enable"   -> [s EXCEPT !.nvic = nvic_enable_irq(s.nvic, c[2])]
      [] c[1] = "priority" -> [s EXCEPT !.nvic = nvic_set_priority(s.nvic, c[2], c[3])]

RECURSIVE HostSetup(_, _, _)
HostSetup(s, calls, i) ==
    IF i > Len(calls) THEN s ELSE HostSetup(HostCall(s, calls[i]), calls, i + 1)

\* TIM2: ARR = arr, DIER = UIE, CR1 = CEN, IRQ enabled with priority p
TimerSetup(arr, p) ==
    << <<"write", TIM2_BASE + TIM_ARR_OFFSET, arr>>,
       <<"write", TIM2_BASE + TIM_DIER_OFFSET, TIM_DIER_UIE>>,
       <<"write", TIM2_BASE + TIM_CR1_OFFSET, TIM_CR1_CEN>>,
       <<"enable", TIM2_IRQ>>, <<"priority", TIM2_IRQ, p>> >>

\* USART1: CR1 = UE|RXNEIE, IRQ enabled with priority p
UartSetup(p) ==
    << <<"write", USART1_BASE + UART_CR1_OFFSET, UART_CR1_UE + UART_CR1_RXNEIE>>,
       <<"enable", USART1_IRQ>>, <<"priority", USART1_IRQ, p>> >>

\* the firmware images and host setups the model starts from
Scenarios ==
    { <<ImageStores, << >> >>,
      <<ImageLoop, TimerSetup(3, 0) \o UartSetup(0)>>,
      <<ImageLoop, TimerSetup(1, 1) \o UartSetup(0)>>,
      <<ImageLoop, TimerSetup(3, 0) \o UartSetup(1)>>,
      <<ImagePeriph, TimerSetup(3, 0)>>,
      <<ImageSpin, TimerSetup(5, 0)>>,
      <<ImageCount, << >> >> }

\* bytes the host feeds to uart_incoming_char
RxChars == {65}
\* addresses the host sets breakpoints at: 0x08000086 (main code), 0x080000C0 (TIM2 handler)
BreakAddrs == {134217862, 134217920}

(***************************************************************************)
(* Specification of the simulator                                          *)
(***************************************************************************)
\* simulator_init, a firmware image in Flash, simulator_reset (simulator_load),
\* then the host's setup calls
\* the state after simulator_init, load of sc[1], reset and the host calls
\* sc[2], with the breakpoints dbg set
InitWith(sc, dbg) ==
        LET s0 == [memory |-> [flash |-> sc[1], sram |-> << >>],
                   nvic |-> nvic_reset(<< >>),
                   bus |-> InitBus,
                   core |-> [r |-> [n \in 0 .. 15 |-> 0], xpsr |-> 0, thumb_mode |-> 1,
                             interruptible |-> 1, current_irq |-> 0, cycles |-> 0],
                   timer |-> timer_reset(TIM2_IRQ),
                   uart |-> uart_reset(USART1_IRQ),
                   out |-> << >>,
                   handlers |-> << >>,
                   returned |-> << >>]
            s == HostSetup(simulator_reset(s0), sc[2], 1)
        IN  /\ memory = s.memory
            /\ nvic = s.nvic
            /\ bus = s.bus
            /\ core = s.core
            /\ timer = s.timer
            /\ uart = s.uart
            /\ uart_out = << >>
            /\ debugger = dbg
            /\ halted = 0
            /\ running = 0
            /\ status = "None"
            /\ entered = 0
            /\ wstatus = STATUS_OK
            /\ handlers = << >>
            /\ returned = << >>
            /\ reply = << >>
            /\ ticks = 0
            /\ query = << >>
            /\ host = [sent |-> << >>, fed |-> 0, over |-> 0]
            /\ rsp = [wire |-> << >>, log |-> << >>, pos |-> "recv", await |-> "",
                      cmds |-> 0, intrs |-> 0]

InitOf(sc) == InitWith(sc, << >>)

Init == \E sc \in Scenarios : InitOf(sc)

\* the variables a system value carries
SetSys(s) ==
    /\ memory' = s.memory
    /\ nvic' = s.nvic
    /\ bus' = s.bus
    /\ core' = s.core
    /\ timer' = s.timer
    /\ uart' = s.uart
    /\ uart_out' = s.out
    /\ handlers' = s.handlers
    /\ returned' = s.returned

sysvars == <<memory, nvic, bus, core, timer, uart, uart_out, handlers, returned>>

\* an operation that sends no GDB packet and is no directly driven call of
\* timer_tick or nvic_get_pending_irq
Quiet ==
    /\ reply' = << >>
    /\ ticks' = ticks
    /\ query' = << >>
    /\ host' = host
    /\ rsp' = rsp

\* the instruction at PC is one this model executes (or one the core rejects)
Carried(f) ==
    IF f.is32 THEN TRUE
    ELSE IF f.entry = 0 THEN TRUE
    ELSE instr_table[f.entry][3] \in ModelledHandlers

Executable(s) == Carried(Fetch(s))

\* what a simulator_step that ran leaves: x is [s, st, halted, entered, wst]
StepResult(x) ==
    /\ UNCHANGED debugger
    /\ status' = x.st
    /\ halted' = x.halted
    /\ entered' = x.entered
    /\ wstatus' = x.wst
    /\ SetSys(x.s)

\* simulator_step had it lacked the halted check
StepBodyUnchecked == StepResult(simulator_step(Sys, debugger))

\* simulator_step had its test of halted come after the peripheral ticks
StepBodyTickingHalted ==
    IF halted # 0
    THEN /\ status' = STATUS_HALTED
         /\ SetSys(TickAll(Sys, 1))
         /\ UNCHANGED <<debugger, halted, entered, wstatus>>
    ELSE StepResult(simulator_step(Sys, debugger))

\* the body of simulator_step, as every caller runs it
StepBody ==
    IF halted # 0
    THEN /\ status' = STATUS_HALTED
         /\ UNCHANGED <<sysvars, debugger, halted, entered, wstatus>>
    ELSE StepResult(simulator_step(Sys, debugger))

\* simulator_step called by the host (CLI step, tests)
SimulatorStep ==
    /\ running = 0
    /\ core.cycles < MaxCycles
    /\ UNCHANGED running
    /\ Quiet
    /\ Executable(Sys)
    /\ StepBody

\* simulator_run up to its loop: running = 1, halted = 0
SimulatorRunBegin ==
    /\ running = 0
    /\ running' = 1
    /\ halted' = 0
    /\ UNCHANGED <<sysvars, debugger, status, entered, wstatus>>
    /\ Quiet

\* the loop of simulator_run had it gone on after a breakpoint hit
RunLoopLeftOnFailureOnly(s, h) == s \notin {STATUS_OK, STATUS_BREAKPOINT_HIT}

\* the exits of the loop of simulator_run after a step of Status s that left
\* halted = h: the two breaks and the loop condition
RunLoopLeft(s, h) == s # STATUS_OK \/ h # 0

\* one iteration of the loop of simulator_run; a status other than Ok leaves
\* the loop, and so does halted, and running is cleared on the way out
SimulatorRunIter ==
    /\ running = 1
    /\ core.cycles < MaxCycles
    /\ Quiet
    /\ Executable(Sys)
    /\ StepBody
    /\ running' = IF RunLoopLeft(status', halted') THEN 0 ELSE 1

\* simulator_halt
SimulatorHalt ==
    /\ running = 0
    /\ running' = 0
    /\ halted' = 1
    /\ UNCHANGED <<sysvars, debugger, status, entered, wstatus>>
    /\ Quiet

\* simulator_reset
SimulatorReset ==
    /\ running = 0
    /\ SetSys([simulator_reset(Sys) EXCEPT !.out = << >>])
    /\ halted' = 0
    /\ running' = 0
    /\ status' = "None"
    /\ entered' = 0
    /\ wstatus' = STATUS_OK
    /\ UNCHANGED debugger
    /\ Quiet

\* handle_step of the GDB stub ('s' without an address): halted is cleared
\* and simulator_step called
GdbStep ==
    /\ running = 0
    /\ core.cycles < MaxCycles
    /\ UNCHANGED running
    /\ reply' = <<"s", "S05">>
    /\ UNCHANGED <<ticks, query, host, rsp>>
    /\ Executable(Sys)
    /\ StepResult(simulator_step(Sys, debugger))

\* uart_incoming_char called by the host (CLI uart <char>)
UartIncomingChar ==
    /\ running = 0
    /\ uart.rx_count < MaxRx
    /\ \E c \in RxChars :
          LET k == uart_incoming_char(uart, nvic, c)
          IN  /\ uart' = k.u
              /\ nvic' = k.nv
    /\ UNCHANGED <<memory, bus, core, timer, uart_out, handlers, returned,
                   debugger, halted, running, status, entered, wstatus>>
    /\ Quiet

\* debugger_add_breakpoint called by the host
DebuggerAdd ==
    /\ running = 0
    /\ \E a \in BreakAddrs : debugger' = debugger_add_breakpoint(debugger, a).dbg
    /\ UNCHANGED <<sysvars, halted, running, status, entered, wstatus>>
    /\ Quiet

\* debugger_remove_breakpoint called by the host
DebuggerRemove ==
    /\ running = 0
    /\ \E a \in BreakAddrs : debugger' = debugger_remove_breakpoint(debugger, a).dbg
    /\ UNCHANGED <<sysvars, halted, running, status, entered, wstatus>>
    /\ Quiet

Next ==
    \/ SimulatorStep
    \/ SimulatorRunBegin
    \/ SimulatorRunIter
    \/ SimulatorHalt
    \/ SimulatorReset
    \/ GdbStep
    \/ UartIncomingChar
    \/ DebuggerAdd
    \/ DebuggerRemove

Spec == Init /\ [][Next]_vars

(***************************************************************************)
(* Specification of a GDB session: the commands of the RSP stub            *)
(***************************************************************************)
\* addresses of the M packets: Flash, the last byte of SRAM, an unmapped address
GdbAddrs == {134217728, 536891391, 268435456}
\* the data bytes of the M packets, len of them are written
GdbData == <<171, 205>>

\* the loop of handle_write_mem from byte i on: bus_write of each byte, the
\* status discarded; wst keeps the first status that was not Ok
RECURSIVE WriteMemLoop(_, _, _, _, _)
WriteMemLoop(s, addr, len, i, wst) ==
    IF i >= len THEN [s |-> s, wst |-> wst]
    ELSE WriteMemLoop(bus_write(s, AddW(addr, i), GdbData[i + 1], 1).s, addr, len, i + 1,
                      IF wst # STATUS_OK THEN wst
                      ELSE bus_write(s, AddW(addr, i), GdbData[i + 1], 1).st)

\* handle_write_mem on well-formed arguments: [s, wst, packet]
handle_write_mem(s, addr, len) ==
    [w |-> WriteMemLoop(s, addr, len, 0, STATUS_OK), packet |-> "OK"]

\* 'M addr,len:data'
GdbWriteMem ==
    /\ running = 0
    /\ \E addr \in GdbAddrs, len \in {1, 2} :
          LET h == handle_write_mem(Sys, addr, len)
          IN  /\ SetSys(h.w.s)
              /\ wstatus' = h.w.wst
              /\ reply' = <<"M", h.packet>>
    /\ UNCHANGED <<debugger, halted, running, status, entered, ticks, query, host, rsp>>

\* 'Z0,addr,kind': handle_set_bp
GdbSetBreakpoint ==
    /\ running = 0
    /\ \E a \in BreakAddrs :
          LET r == debugger_add_breakpoint(debugger, a)
          IN  /\ debugger' = r.dbg
              /\ reply' = <<"Z", IF r.rc = 0 THEN "OK" ELSE "E01">>
    /\ UNCHANGED <<sysvars, halted, running, status, entered, wstatus, ticks, query, host, rsp>>

\* a 0x03 byte received by rsp_session between commands: simulator_halt, S02
GdbInterrupt ==
    /\ running = 0
    /\ running' = 0
    /\ halted' = 1
    /\ reply' = <<"0x03", "S02">>
    /\ UNCHANGED <<sysvars, debugger, status, entered, wstatus, ticks, query, host, rsp>>

\* handle_continue ('c' without an address) up to its loop
GdbContinueBegin ==
    /\ running = 0
    /\ halted' = 0
    /\ running' = 1
    /\ reply' = << >>
    /\ UNCHANGED <<sysvars, debugger, status, entered, wstatus, ticks, query, host, rsp>>

\* the two breaks of the loop of handle_continue: intr is what check_interrupt
\* returned after the step, s the Status of the step
ContinueBreaks(intr, s) ==
    IF intr # 0 THEN TRUE ELSE (s = STATUS_BREAKPOINT_HIT \/ s # STATUS_OK)

\* handle_continue without its rsp_send_packet
ContinueEndSilent ==
    /\ running' = 0
    /\ reply' = << >>

\* the end of handle_continue: running = 0 and the stop reply
ContinueEnd ==
    /\ running' = 0
    /\ reply' = <<"c", "S05">>

\* one iteration of the loop of handle_continue, check_interrupt returning intr
\* (1 when the client has sent the byte 0x03), and the end of the command
\* when the loop is left
GdbContinueIter(intr) ==
    /\ running = 1
    /\ core.cycles < MaxCycles
    /\ UNCHANGED <<ticks, query, host, rsp>>
    /\ Executable(Sys)
    /\ IF halted # 0
       THEN /\ ContinueEnd
            /\ UNCHANGED <<sysvars, debugger, halted, status, entered, wstatus>>
       ELSE /\ StepResult(simulator_step(Sys, debugger))
            /\ IF ContinueBreaks(intr, status') \/ halted' # 0
               THEN ContinueEnd
               ELSE running' = 1 /\ reply' = << >>

\* an iteration during which no 0x03 arrives
GdbContinueStep == GdbContinueIter(0)

\* an iteration during which the client sends 0x03
GdbContinueInterrupted == GdbContinueIter(1)

NextGdb ==
    \/ GdbContinueBegin
    \/ GdbContinueStep
    \/ GdbContinueInterrupted
    \/ GdbStep
    \/ GdbWriteMem
    \/ GdbSetBreakpoint
    \/ GdbInterrupt

SpecGdb == Init /\ [][NextGdb]_vars

(***************************************************************************)
(* Specification of an RSP connection: rsp_session reading the bytes a GDB *)
(* client sends, the client sending while the stub runs                    *)
(***************************************************************************)
\* the numbers of commands and of 0x03 bytes the client stops at
MaxCommands == 2
MaxInterrupts == 2

\* the packets of the client: $c#63, $?#3f, and $?#3e, whose checksum is wrong
PktContinue == <<36, 99, 35, 54, 51>>
PktStatus == <<36, 63, 35, 51, 102>>
PktStatusBad == <<36, 63, 35, 51, 101>>

\* the value of a hexadecimal digit character, -1 for another character
HexDigit(c) ==
    IF c >= 48 /\ c <= 57 THEN c - 48
    ELSE IF c >= 97 /\ c <= 102 THEN c - 87
    ELSE IF c >= 65 /\ c <= 70 THEN c - 55
    ELSE -1

\* (uint8_t)strtoul(cs, NULL, 16) of two characters that are no sign, space or 0x prefix
Expected(c1, c2) ==
    IF HexDigit(c1) < 0 THEN 0
    ELSE IF HexDigit(c2) < 0 THEN HexDigit(c1)
    ELSE 16 * HexDigit(c1) + HexDigit(c2)

\* rsp_checksum: the sum of the bytes modulo 256
RECURSIVE rsp_checksum(_)
rsp_checksum(data) ==
    IF data = << >> THEN 0 ELSE (Head(data) + rsp_checksum(Tail(data))) % 256

\* the first loop of rsp_recv_packet: the bytes from the first '$' or 0x03 on
RECURSIVE SkipToStart(_)
SkipToStart(w) ==
    IF w = << >> THEN w
    ELSE IF Head(w) = 3 \/ Head(w) = 36 THEN w
    ELSE SkipToStart(Tail(w))

\* the index of the first '#' of w, 0 when there is none
RECURSIVE FirstHash(_, _)
FirstHash(w, i) ==
    IF i > Len(w) THEN 0 ELSE IF w[i] = 35 THEN i ELSE FirstHash(w, i + 1)

\* rsp_recv_packet on the bytes w: [len, buf, rest, sent]; len is -2 while a
\* recv_byte waits for a byte the client has not sent
rsp_recv_packet(w) ==
    LET from == SkipToStart(w)
        h == FirstHash(from, 2)
        buf == SubSeq(from, 2, h - 1)
    IN  IF from = << >> THEN [len |-> -2, buf |-> << >>, rest |-> w, sent |-> ""]
        ELSE IF Head(from) = 3
             THEN [len |-> 1, buf |-> <<3>>, rest |-> Tail(from), sent |-> ""]
        ELSE IF h = 0 \/ Len(from) < h + 2
             THEN [len |-> -2, buf |-> << >>, rest |-> w, sent |-> ""]
        ELSE IF rsp_checksum(buf) # Expected(from[h + 1], from[h + 2])
             THEN [len |-> -1, buf |-> buf, rest |-> SubSeq(from, h + 3, Len(from)), sent |-> "-"]
        ELSE [len |-> Len(buf), buf |-> buf, rest |-> SubSeq(from, h + 3, Len(from)), sent |-> "+"]

\* check_interrupt: a 0x03 that is the next byte to read is consumed
check_interrupt(w) ==
    IF w # << >> /\ Head(w) = 3 THEN [found |-> 1, rest |-> Tail(w)]
    ELSE [found |-> 0, rest |-> w]

\* an RSP connection to a simulator with a breakpoint at 0x08000086, or none
InitRsp ==
    \E sc \in {<<ImageStores, << >> >>, <<ImageLoop, TimerSetup(3, 0) \o UartSetup(0)>>},
       dbg \in {<< >>, <<134217862>>} : InitWith(sc, dbg)

\* the client sends a command packet, having the reply of the last one
ClientCommand(name, pkt) ==
    /\ rsp.pos # "closed"
    /\ rsp.await = ""
    /\ rsp.cmds < MaxCommands
    /\ rsp' = [rsp EXCEPT !.wire = @ \o pkt, !.await = name, !.cmds = @ + 1]
    /\ UNCHANGED <<sysvars, debugger, halted, running, status, entered, wstatus,
                   reply, ticks, query, host>>

\* the client sends 0x03 while it awaits the stop reply of its c command
ClientInterrupt ==
    /\ rsp.pos # "closed"
    /\ rsp.await = "c"
    /\ rsp.intrs < MaxInterrupts
    /\ rsp' = [rsp EXCEPT !.wire = Append(@, 3), !.intrs = @ + 1]
    /\ UNCHANGED <<sysvars, debugger, halted, running, status, entered, wstatus,
                   reply, ticks, query, host>>

\* the client has read the reply it awaits and sends '+'
ClientAck ==
    /\ rsp.pos # "closed"
    /\ rsp.await # ""
    /\ rsp.log # << >>
    /\ rsp.log[Len(rsp.log)] \notin {"+", "-"}
    /\ rsp' = [rsp EXCEPT !.wire = Append(@, 43), !.await = ""]
    /\ UNCHANGED <<sysvars, debugger, halted, running, status, entered, wstatus,
                   reply, ticks, query, host>>

\* one turn of the loop of rsp_session up to the next byte it waits for:
\* rsp_recv_packet, then the 0x03 branch, the return on len < 0, or the
\* command: handle_continue up to its loop, '?', an unsupported command
RspReceive ==
    /\ rsp.pos = "recv"
    /\ running = 0
    /\ LET p == rsp_recv_packet(rsp.wire)
       IN  /\ p.len # -2
           /\ IF p.len < 0
              THEN /\ rsp' = [rsp EXCEPT !.wire = p.rest, !.log = Append(@, "-"),
                                         !.pos = "closed"]
                   /\ reply' = << >>
                   /\ UNCHANGED <<halted, running>>
              ELSE IF p.len = 1 /\ p.buf[1] = 3
              THEN /\ halted' = 1
                   /\ running' = 0
                   /\ reply' = <<"0x03", "S02">>
                   /\ rsp' = [rsp EXCEPT !.wire = p.rest, !.log = Append(@, "S02"),
                                         !.pos = "ack"]
              ELSE IF p.len > 0 /\ p.buf[1] = 99
              THEN /\ halted' = 0
                   /\ running' = 1
                   /\ reply' = << >>
                   /\ rsp' = [rsp EXCEPT !.wire = p.rest, !.log = Append(@, "+"),
                                         !.pos = "loop"]
              ELSE /\ UNCHANGED <<halted, running>>
                   /\ reply' = <<"?", IF p.len > 0 /\ p.buf[1] = 63 THEN "S05" ELSE "">>
                   /\ rsp' = [rsp EXCEPT !.wire = p.rest,
                                         !.log = @ \o <<"+", IF p.len > 0 /\ p.buf[1] = 63
                                                            THEN "S05" ELSE "">>,
                                         !.pos = "ack"]
    /\ UNCHANGED <<sysvars, debugger, status, entered, wstatus, ticks, query, host>>

\* one iteration of the loop of handle_continue with its check_interrupt, and
\* the end of the command up to the recv_byte of rsp_send_packet
RspContinueIter ==
    /\ rsp.pos = "loop"
    /\ running = 1
    /\ core.cycles < MaxCycles
    /\ UNCHANGED <<ticks, query, host>>
    /\ Executable(Sys)
    /\ IF halted # 0
       THEN /\ ContinueEnd
            /\ rsp' = [rsp EXCEPT !.log = Append(@, "S05"), !.pos = "ack"]
            /\ UNCHANGED <<sysvars, debugger, halted, status, entered, wstatus>>
       ELSE /\ StepResult(simulator_step(Sys, debugger))
            /\ IF ContinueBreaks(check_interrupt(rsp.wire).found, status') \/ halted' # 0
               THEN /\ ContinueEnd
                    /\ rsp' = [rsp EXCEPT !.wire = check_interrupt(rsp.wire).rest,
                                          !.log = Append(@, "S05"), !.pos = "ack"]
               ELSE /\ running' = 1
                    /\ reply' = << >>
                    /\ rsp' = [rsp EXCEPT !.wire = check_interrupt(rsp.wire).rest]

\* the end of rsp_send_packet: the next byte is read as the acknowledgement,
\* whatever it is
RspAck ==
    /\ rsp.pos = "ack"
    /\ rsp.wire # << >>
    /\ rsp' = [rsp EXCEPT !.wire = Tail(@), !.pos = "recv"]
    /\ UNCHANGED <<sysvars, debugger, halted, running, status, entered, wstatus,
                   reply, ticks, query, host>>

NextRsp ==
    \/ ClientCommand("c", PktContinue)
    \/ ClientCommand("?", PktStatus)
    \/ ClientCommand("?", PktStatusBad)
    \/ ClientInterrupt
    \/ ClientAck
    \/ RspReceive
    \/ RspContinueIter
    \/ RspAck

SpecRsp == InitRsp /\ [][NextRsp]_vars

(***************************************************************************)
(* Specification of the timer alone: TIM2 configured, then ticked          *)
(***************************************************************************)
\* largest PSC and ARR the timer is configured with, and the ticks given to it
MaxPsc == 2
MaxArr == 3
MaxTicks == 19

\* TIM2 configured as the tests do: ARR, PSC, DIER, CR1, IRQ enabled
TimerRegs(arr, psc, dier, cr1) ==
    << <<"write", TIM2_BASE + TIM_ARR_OFFSET, arr>>,
       <<"write", TIM2_BASE + TIM_PSC_OFFSET, psc>>,
       <<"write", TIM2_BASE + TIM_DIER_OFFSET, dier>>,
       <<"write", TIM2_BASE + TIM_CR1_OFFSET, cr1>>,
       <<"enable", TIM2_IRQ>> >>

InitTimer ==
    \E arr \in 0 .. MaxArr, psc \in 0 .. MaxPsc, dier \in {0, TIM_DIER_UIE}, cr1 \in {0, TIM_CR1_CEN} :
        InitOf(<<ImageStores, TimerRegs(arr, psc, dier, cr1)>>)

nottimer == <<memory, bus, core, debugger, uart, uart_out,
              halted, running, status, entered, wstatus, handlers, returned>>

\* one call of timer_tick
TimerTick ==
    /\ ticks < MaxTicks
    /\ ticks' = ticks + 1
    /\ timer' = timer_tick(timer, nvic).tim
    /\ nvic' = timer_tick(timer, nvic).nv
    /\ reply' = << >> /\ query' = << >>
    /\ UNCHANGED <<nottimer, host, rsp>>

\* the firmware clears SR.UIF: a write of 0 to SR
TimerClearUif ==
    /\ AndW(timer.sr, TIM_SR_UIF) # 0
    /\ timer' = timer_write(timer, TIM_SR_OFFSET, 0, 4).tim
    /\ UNCHANGED <<nvic, ticks, reply, query, host, rsp>>
    /\ UNCHANGED nottimer

\* the pending bit of the timer's IRQ is cleared, as taking the IRQ does
TimerIrqCleared ==
    /\ nvic.pending[TIM2_IRQ] # 0
    /\ nvic' = nvic_clear_pending(nvic, TIM2_IRQ)
    /\ UNCHANGED <<timer, ticks, reply, query, host, rsp>>
    /\ UNCHANGED nottimer

NextTimer ==
    \/ TimerTick
    \/ TimerClearUif
    \/ TimerIrqCleared

SpecTimer == InitTimer /\ [][NextTimer]_vars

(***************************************************************************)
(* Specification of the UART alone: USART1 enabled, then driven by a host  *)
(***************************************************************************)
\* the bytes the host writes to DR, how many it writes, and how many it feeds
TxBytes == {72, 105}
MaxTx == 3
MaxFeed == 20

\* the k-th byte (from 0) the host passes to uart_incoming_char
RxStream(k) == 65 + (k % 7)

\* USART1 configured as the tests do: CR1, IRQ enabled
UartRegs(cr1) ==
    << <<"write", USART1_BASE + UART_CR1_OFFSET, cr1>>, <<"enable", USART1_IRQ>> >>

InitUart ==
    \E ie \in {0, UART_CR1_TXEIE + UART_CR1_RXNEIE} :
        InitOf(<<ImageStores, UartRegs(UART_CR1_UE + UART_CR1_TE + UART_CR1_RE + ie)>>)

notuart == <<memory, bus, core, debugger, timer,
             halted, running, status, entered, wstatus, handlers, returned, reply, ticks, rsp>>

\* the host writes its next byte to DR, the previous one having been ticked out
UartWriteDr ==
    /\ uart.tx_pending = 0
    /\ Len(host.sent) < MaxTx
    /\ \E b \in TxBytes :
          /\ uart' = uart_write(uart, UART_DR_OFFSET, b, 4).u
          /\ host' = [host EXCEPT !.sent = Append(@, b)]
    /\ query' = << >>
    /\ UNCHANGED <<nvic, uart_out, notuart>>

\* one call of uart_tick
UartTick ==
    /\ uart' = uart_tick(uart, nvic, uart_out).u
    /\ nvic' = uart_tick(uart, nvic, uart_out).nv
    /\ uart_out' = uart_tick(uart, nvic, uart_out).out
    /\ query' = << >>
    /\ UNCHANGED <<host, notuart>>

\* the host passes its next byte to uart_incoming_char
UartFeed ==
    /\ host.fed < MaxFeed
    /\ uart' = uart_incoming_char(uart, nvic, RxStream(host.fed)).u
    /\ nvic' = uart_incoming_char(uart, nvic, RxStream(host.fed)).nv
    /\ host' = [host EXCEPT !.fed = @ + 1]
    /\ query' = << >>
    /\ UNCHANGED <<uart_out, notuart>>

\* the host reads DR
UartReadDr ==
    /\ query' = <<uart_read_val(uart, UART_DR_OFFSET, 4)>>
    /\ uart' = uart_read_eff(uart, UART_DR_OFFSET, 4)
    /\ UNCHANGED <<nvic, uart_out, host, notuart>>

NextUart ==
    \/ UartWriteDr
    \/ UartTick
    \/ UartFeed
    \/ UartReadDr

SpecUart == InitUart /\ [][NextUart]_vars

(***************************************************************************)
(* Specification of the UART transmitter: DR written at any time, whether  *)
(* or not uart_tick has run since the last write                           *)
(***************************************************************************)
\* the number of DR writes the host stops at
MaxWritten == 4

\* the host writes a byte to DR; CR1.UE is set, so the write is accepted
TxWriteDr ==
    /\ Len(host.sent) < MaxWritten
    /\ AndW(uart.cr1, UART_CR1_UE) # 0
    /\ \E b \in TxBytes :
          /\ uart' = uart_write(uart, UART_DR_OFFSET, b, 4).u
          /\ query' = <<uart_write(uart, UART_DR_OFFSET, b, 4).st>>
          /\ host' = [host EXCEPT !.sent = Append(@, b),
                                  !.over = @ + uart.tx_pending]
    /\ UNCHANGED <<nvic, uart_out, notuart>>

NextTx ==
    \/ TxWriteDr
    \/ UartTick

SpecTx == InitUart /\ [][NextTx]_vars

(***************************************************************************)
(* Specification of the UART registers: any register written and read,     *)
(* bytes received, uart_tick and uart_reset, in any order                  *)
(***************************************************************************)
\* the number of bytes the host passes to uart_incoming_char, and of bytes
\* the output callback is let receive
MaxHeld == 3
MaxEmitted == 1

\* the values written to SR: all ones, all but RXNE, all but TC, zero
SrValues == {-1, NotW(UART_SR_RXNE), NotW(UART_SR_TC), 0}
\* the values written to CR1
Cr1Values == {0, UART_CR1_UE + UART_CR1_RE + UART_CR1_RXNEIE}

\* uart_write of SR, BRR or CR1 by the host
RegWrite(offset, value) ==
    /\ uart' = uart_write(uart, offset, value, 4).u
    /\ query' = <<offset, value>>
    /\ UNCHANGED <<nvic, uart_out, host, notuart>>

\* uart_write of DR by the host
RegWriteDr ==
    /\ Len(uart_out) < MaxEmitted
    /\ uart' = uart_write(uart, UART_DR_OFFSET, 72, 4).u
    /\ query' = <<UART_DR_OFFSET, 72>>
    /\ UNCHANGED <<nvic, uart_out, host, notuart>>

\* uart_read of SR by the host
RegReadSr ==
    /\ query' = <<uart_read_val(uart, UART_SR_OFFSET, 4)>>
    /\ uart' = uart_read_eff(uart, UART_SR_OFFSET, 4)
    /\ UNCHANGED <<nvic, uart_out, host, notuart>>

\* the host passes its next byte to uart_incoming_char
RegFeed ==
    /\ host.fed < MaxHeld
    /\ UartFeed

\* uart_reset
RegReset ==
    /\ uart' = uart_reset(uart.irq)
    /\ query' = << >>
    /\ UNCHANGED <<nvic, uart_out, host, notuart>>

NextReg ==
    \/ \E v \in SrValues : RegWrite(UART_SR_OFFSET, v)
    \/ \E v \in Cr1Values : RegWrite(UART_CR1_OFFSET, v)
    \/ RegWriteDr
    \/ RegReadSr
    \/ UartReadDr
    \/ RegFeed
    \/ UartTick
    \/ RegReset

SpecReg == InitUart /\ [][NextReg]_vars

(***************************************************************************)
(* Specification of the Bus alone: regions registered after simulator_init *)
(***************************************************************************)
\* the number of regions the host stops registering at
MaxRegions == 7

\* bases and sizes of the regions the host registers: TIM2 itself, the last
\* word of TIM2, inside SRAM, 16 bytes below SRAM, and a free address
BusBases == {1073741824, 1073742844, 536887296, 536870896, 1342177280}
BusSizes == {16, 1024}

\* a call of bus_register_region by the host, for a second SRAM-like device
BusRegisterRegion(base, size) ==
    /\ Len(bus) < MaxRegions
    /\ bus' = bus_register_region(bus, base, size, "sram").bus
    /\ query' = <<bus_register_region(bus, base, size, "sram").st>>
    /\ UNCHANGED <<memory, nvic, core, debugger, timer, uart, uart_out, halted, running,
                   status, entered, wstatus, handlers, returned, reply, ticks, host, rsp>>

NextBus == \E base \in BusBases, size \in BusSizes : BusRegisterRegion(base, size)

\* the Bus as simulator_init leaves it
InitRegistered == InitOf(<<ImageStores, << >> >>)

SpecBus == InitRegistered /\ [][NextBus]_vars

(***************************************************************************)
(* Specification of the memory driven by the host: accesses through the    *)
(* Bus, direct calls of the memory functions, M packets, instructions      *)
(***************************************************************************)
\* addresses of the Bus accesses: the first and the last halfword of the Flash
\* alias, the first byte of canonical Flash, the last halfword of SRAM
MemAddrs == {0, 65534, 134217728, 536891390}

\* offsets of the direct calls: SRAM_SIZE - 2, SRAM_SIZE
\* (test_memory_sram_boundary), FLASH_SIZE - 2, 0xFFFFFFFF
MemOffsets == {20478, 20480, 65534, -1}

MemSizes == {1, 2, 4}

\* the value written: 0xCAFEBABE
MemValue == -889275714

\* the status of a process the host's operating system has ended
Killed == "Killed"

\* offset + size wrapped in uint32_t, so that the test offset + size > limit of
\* memory_flash_read, memory_sram_read and memory_sram_write lets through an
\* access that starts 2^32 - offset bytes before the end of the address space
Wrapped(offset, size, limit) ==
    /\ ~ULt(limit, AddW(offset, size))
    /\ offset < 0

\* an access lying in part or in whole outside a container of limit bytes
\* (an offset of 2^31 or more is held as a negative number)
Outside(offset, size, limit) == offset < 0 \/ offset > limit - size

\* write_le(mem->sram, offset, ...) where the pointer mem->sram + offset wraps
\* to below sram: struct Memory has flash[FLASH_SIZE] just before sram, hence
\* the byte at sram[i], i < 0, is flash[FLASH_SIZE + i]
RECURSIVE WriteBelowSram(_, _, _, _, _)
WriteBelowSram(mem, offset, value, size, k) ==
    IF k = size THEN mem
    ELSE LET i == offset + k
             m == IF i < 0
                  THEN [mem EXCEPT !.flash = SetByte(mem.flash, FLASH_SIZE + i, ByteOf(value, k))]
                  ELSE [mem EXCEPT !.sram = SetByte(mem.sram, i, ByteOf(value, k))]
         IN  WriteBelowSram(m, offset, value, size, k + 1)

\* what a read outside every object may return besides ending the process
Undetermined == {0, 165}

\* the process runs on
Alive == ~(Len(query) = 1 /\ query[1] = Killed)

\* the call returned the Status st (query' is <<st>>), the value v (query' is
\* <<"value", v>>)
ReturnedStatus(st) == Len(query') = 1 /\ query'[1] = st
ReturnedValue(v) == Len(query') = 2 /\ query'[2] = v

\* bus_write called by the host
MemBusWrite(addr, size) ==
    /\ Alive
    /\ running = 0
    /\ LET w == bus_write(Sys, addr, MemValue, size)
       IN  /\ SetSys(w.s)
           /\ query' = <<w.st>>
    /\ UNCHANGED <<debugger, halted, running, status, entered, wstatus, reply, ticks, host, rsp>>

\* bus_read called by the host
MemBusRead(addr, size) ==
    /\ Alive
    /\ running = 0
    /\ SetSys(bus_read_eff(Sys, addr, size))
    /\ query' = <<"value", bus_read(Sys, addr, size)>>
    /\ UNCHANGED <<debugger, halted, running, status, entered, wstatus, reply, ticks, host, rsp>>

\* memory_sram_write called by the host; a write the test lets through by
\* wrapping has undefined behaviour: the process is ended, or the bytes land
\* below sram
MemSramWrite(offset, size) ==
    /\ Alive
    /\ running = 0
    /\ IF Wrapped(offset, size, SRAM_SIZE)
       THEN \E ended \in BOOLEAN :
               IF ended
               THEN /\ query' = <<Killed>>
                    /\ memory' = memory
               ELSE /\ query' = <<STATUS_OK>>
                    /\ memory' = WriteBelowSram(memory, offset, MemValue, size, 0)
       ELSE /\ query' = <<memory_sram_write(memory, offset, MemValue, size).st>>
            /\ memory' = memory_sram_write(memory, offset, MemValue, size).mem
    /\ UNCHANGED <<nvic, bus, core, debugger, timer, uart, uart_out, halted, running,
                   status, entered, wstatus, handlers, returned, reply, ticks, host, rsp>>

\* memory_sram_read (dev = "sram") or memory_flash_read (dev = "flash") called
\* by the host; a read the test lets through by wrapping has undefined
\* behaviour: the process is ended, or the bytes found there are returned
MemRead(dev, offset, size) ==
    /\ Alive
    /\ running = 0
    /\ IF Wrapped(offset, size, IF dev = "sram" THEN SRAM_SIZE ELSE FLASH_SIZE)
       THEN \/ query' = <<Killed>>
            \/ \E v \in Undetermined : query' = <<"value", v>>
       ELSE query' = <<"value", IF dev = "sram" THEN memory_sram_read(memory, offset, size)
                                ELSE memory_flash_read(memory, offset, size)>>
    /\ UNCHANGED <<memory, nvic, bus, core, debugger, timer, uart, uart_out, halted,
                   running, status, entered, wstatus, handlers, returned, reply, ticks, host, rsp>>

\* memory_reset called by the host
MemReset ==
    /\ Alive
    /\ running = 0
    /\ memory' = memory_reset(memory)
    /\ query' = << >>
    /\ UNCHANGED <<nvic, bus, core, debugger, timer, uart, uart_out, halted, running,
                   status, entered, wstatus, handlers, returned, reply, ticks, host, rsp>>

\* an M packet of the debugger
MemGdbWrite == Alive /\ GdbWriteMem

\* an instruction of the image
MemStep == Alive /\ SimulatorStep

NextMem ==
    \/ \E addr \in MemAddrs, size \in MemSizes : MemBusWrite(addr, size)
    \/ \E addr \in MemAddrs, size \in MemSizes : MemBusRead(addr, size)
    \/ \E offset \in MemOffsets, size \in MemSizes : MemSramWrite(offset, size)
    \/ \E dev \in {"sram", "flash"}, offset \in MemOffsets, size \in MemSizes :
          MemRead(dev, offset, size)
    \/ MemReset
    \/ MemGdbWrite
    \/ MemStep

SpecMem == InitRegistered /\ [][NextMem]_vars

(***************************************************************************)
(* Specification of the Bus routing: the host registers further regions    *)
(* and reads and writes through the Bus                                    *)
(***************************************************************************)
\* bases of the regions the host registers: the start of the Flash alias,
\* inside SRAM (0x20004000), a free address (0x50000000)
RouteBases == {0, 536887296, 1342177280}

\* addresses of the accesses: 0x10 in the Flash alias and in canonical Flash
\* (the vector of test_bus_flash_alias is at 0 and 4; the images keep code at
\* 0x80), 0x80 in both, SRAM_BASE (test_bus_routing), 0x20004000, 0x50000000,
\* and 0xFFFF0000 (test_bus_unmapped)
RouteAddrs == {4, 134217732, 128, 134217856, 536870912, 536887296, 1342177280, -65536}

\* the number of regions the host stops registering at
MaxRouted == 6

\* bus_register_region called by the host while it has regions left to add
RouteRegister(base, size) ==
    /\ Len(bus) < MaxRouted
    /\ BusRegisterRegion(base, size)

NextRoute ==
    \/ \E base \in RouteBases, size \in BusSizes : RouteRegister(base, size)
    \/ \E addr \in RouteAddrs, size \in MemSizes : MemBusWrite(addr, size)
    \/ \E addr \in RouteAddrs, size \in MemSizes : MemBusRead(addr, size)

SpecRoute == InitRegistered /\ [][NextRoute]_vars

(***************************************************************************)
(* Specification of SRAM written and read by the host in the three sizes   *)
(***************************************************************************)
\* offsets of the calls: SRAM_SIZE - 4 (test_memory_sram_boundary) and the
\* unaligned SRAM_SIZE - 3, from which a word no longer fits
LeOffsets == {20476, 20477}

\* values written: 0xCAFEBABE, 0x1234 (test_memory_sram_boundary), 0
LeValues == {MemValue, 4660, 0}

\* memory_sram_write called by the host
LeWrite(offset, value, size) ==
    /\ memory' = memory_sram_write(memory, offset, value, size).mem
    /\ query' = <<memory_sram_write(memory, offset, value, size).st>>
    /\ UNCHANGED <<nvic, bus, core, debugger, timer, uart, uart_out, halted, running,
                   status, entered, wstatus, handlers, returned, reply, ticks, host, rsp>>

\* memory_sram_read called by the host
LeRead(offset, size) ==
    /\ query' = <<"value", memory_sram_read(memory, offset, size)>>
    /\ UNCHANGED <<memory, nvic, bus, core, debugger, timer, uart, uart_out, halted,
                   running, status, entered, wstatus, handlers, returned, reply, ticks, host, rsp>>

NextLe ==
    \/ \E offset \in LeOffsets, value \in LeValues, size \in MemSizes :
          LeWrite(offset, value, size)
    \/ \E offset \in LeOffsets, size \in MemSizes : LeRead(offset, size)

SpecLe == InitRegistered /\ [][NextLe]_vars

(***************************************************************************)
(* Specification of the breakpoint table driven by the host                *)
(***************************************************************************)
\* the table after n adds of the addresses 0x08001002, 0x08001004, ...
Filled(n) == [i \in 1 .. n |-> 134221824 + 2 * i]

\* the numbers of breakpoints the host has set before: none, or two short of
\* DEBUGGER_MAX_BREAKPOINTS
DbgFills == {0, DEBUGGER_MAX_BREAKPOINTS - 2}

\* addresses of the calls: 0x08000080, 0x08000084, 0xDEADBEEF
\* (test_debugger_remove), and 0x08001002, the first of Filled(n)
DbgAddrs == {134217856, 134217860, -559038737, 134221826}

InitDbg == \E n \in DbgFills : InitWith(<<ImageStores, << >> >>, Filled(n))

\* debugger_add_breakpoint called by the host
DbgAdd(a) ==
    /\ debugger' = debugger_add_breakpoint(debugger, a).dbg
    /\ query' = <<debugger_add_breakpoint(debugger, a).rc>>
    /\ UNCHANGED <<sysvars, halted, running, status, entered, wstatus, reply, ticks, host, rsp>>

\* debugger_remove_breakpoint called by the host
DbgRemove(a) ==
    /\ debugger' = debugger_remove_breakpoint(debugger, a).dbg
    /\ query' = <<debugger_remove_breakpoint(debugger, a).rc>>
    /\ UNCHANGED <<sysvars, halted, running, status, entered, wstatus, reply, ticks, host, rsp>>

\* debugger_check called by the host
DbgCheck(a) ==
    /\ query' = <<"check", IF debugger_check(debugger, a) THEN 1 ELSE 0>>
    /\ UNCHANGED <<sysvars, debugger, halted, running, status, entered, wstatus,
                   reply, ticks, host, rsp>>

NextDbg ==
    \/ \E a \in DbgAddrs : DbgAdd(a)
    \/ \E a \in DbgAddrs : DbgRemove(a)
    \/ \E a \in DbgAddrs : DbgCheck(a)
    \/ GdbSetBreakpoint

SpecDbg == InitDbg /\ [][NextDbg]_vars

(***************************************************************************)
(* Specification of the core driven alone: core_step and core_reset called *)
(* by the host on short programs, as test_core does                        *)
(***************************************************************************)
\* the code every program shares: NOP at 0x84 and 0x86, B . at 0x88 and 0x90
Landing == << <<2, 132, 48896>>, <<2, 134, 48896>>, <<2, 136, 59390>>, <<2, 144, 59390>> >>

\* the 32-bit encodings tried, [hw1, hw2]: B.W .+8 (F000 B802), BL .+8 (F000
\* F802), UDF.W #0 (F7F0 A000), MOVW R0,#0 (F240 0000), PUSH.W (E92D 4010),
\* LDR.W R0,[R0] (F8D0 0000)
Encodings32 ==
    { <<61440, 47106>>, <<61440, 63490>>, <<63472, 40960>>,
      <<62016, 0>>, <<59693, 16400>>, <<63696, 0>> }

\* 0x80: the two halfwords e of a 32-bit encoding
Prog32(e) == << <<2, 128, e[1]>>, <<2, 130, e[2]>> >> \o Landing

\* 0x80: MOV R0,#imm; 0x82: op
ProgReg(imm, op) == << <<2, 128, 8192 + imm>>, <<2, 130, op>> >> \o Landing

\* the programs of one register and one PC-writing instruction: BX R0 to 0x90
\* and to 0x91, MOV PC,R0 with 0x91, ADD PC,R0 with 5
RegPrograms ==
    { ProgReg(144, 18176), ProgReg(145, 18176), ProgReg(145, 18055), ProgReg(5, 17543) }

\* 0x80: NOP; NOP; NOP; B . (test_core_cycles)
ProgNops == << <<2, 128, 48896>>, <<2, 130, 48896>>, <<2, 132, 48896>>, <<2, 134, 59390>> >>

\* 0x80: MOV R0,#0x91; PUSH {R0}; POP {PC}
ProgPop == << <<2, 128, 8337>>, <<2, 130, 46081>>, <<2, 132, 48384>>, <<2, 144, 59390>> >>

\* 0x80: CMP R0,#0; BEQ 0x88
ProgCond == << <<2, 128, 10240>>, <<2, 130, 53249>> >> \o Landing

\* 0x80: CMP R0,#cmp; 0x82: 0xDF00 + imm, which as B<cond> would branch to
\* 0x86 + 2 * sign_extend(imm)
ProgSvc(cmp, imm) == << <<2, 128, 10240 + cmp>>, <<2, 130, 57088 + imm>> >> \o Landing

\* CMP R0,#0 sets Z and C, CMP R0,#1 sets N; the immediates are +1 and -2
SvcPrograms == {ProgSvc(cmp, imm) : cmp \in {0, 1}, imm \in {1, 254}}

\* 0x80: MOV R6,#1; PUSH {R0-R7}; LDR R0,[PC,#0]; BX R0; 0x88: .word 0xFFFFFFF9
\* (an exception return from a frame the program built, its PC word 1)
ProgReturn ==
    << <<2, 128, 9729>>, <<2, 130, 46335>>, <<2, 132, 18432>>, <<2, 134, 18176>>,
       <<4, 136, EXC_RETURN_THREAD_MSP>> >>

\* 0x80: 0xBF10 (no table entry)
ProgUnknown == << <<2, 128, 48912>> >>

CorePrograms ==
    {Prog32(e) : e \in Encodings32} \cup RegPrograms \cup SvcPrograms
        \cup {ProgNops, ProgPop, ProgCond, ProgReturn, ProgUnknown}

\* load_code of a program below the vector table, USART1 able to interrupt
InitCore == \E p \in CorePrograms : InitOf(<<FlashOf(Vectors \o p), UartSetup(0)>>)

\* core_step called by the host
CoreStep ==
    /\ core.cycles < MaxCycles
    /\ Executable(Sys)
    /\ LET x == core_step(Sys)
       IN  /\ SetSys(x.s)
           /\ query' = <<x.st>>
           /\ entered' = x.entered
           /\ wstatus' = x.wst
    /\ UNCHANGED <<debugger, halted, running, status, reply, ticks, host, rsp>>

\* core_reset called by the host
CoreReset ==
    /\ SetSys(core_reset(Sys))
    /\ query' = << >>
    /\ entered' = 0
    /\ UNCHANGED <<debugger, halted, running, status, wstatus, reply, ticks, host, rsp>>

NextCore ==
    \/ CoreStep
    \/ CoreReset
    \/ UartIncomingChar

SpecCore == InitCore /\ [][NextCore]_vars

(***************************************************************************)
(* Specification of the NVIC alone: any sequence of calls of its interface *)
(***************************************************************************)
\* IRQ numbers the calls are made with; 43 is NVIC_NUM_IRQ, out of range
NvicIrqs == {0, 1, 43}
\* priorities given to nvic_set_priority
NvicPrios == {0, 1, 255}

\* nvic_init on a simulator that is otherwise as constructed
InitNvic == InitOf(<<ImageStores, << >> >>)

notnvic == <<memory, bus, core, debugger, timer, uart, uart_out,
             halted, running, status, entered, wstatus, handlers, returned,
             reply, ticks, host, rsp>>

NvicSetPending ==
    /\ \E irq \in NvicIrqs : nvic' = nvic_set_pending(nvic, irq)
    /\ UNCHANGED notnvic
    /\ query' = << >>

NvicClearPending ==
    /\ \E irq \in NvicIrqs : nvic' = nvic_clear_pending(nvic, irq)
    /\ UNCHANGED notnvic
    /\ query' = << >>

NvicEnableIrq ==
    /\ \E irq \in NvicIrqs : nvic' = nvic_enable_irq(nvic, irq)
    /\ UNCHANGED notnvic
    /\ query' = << >>

NvicDisableIrq ==
    /\ \E irq \in NvicIrqs : nvic' = nvic_disable_irq(nvic, irq)
    /\ UNCHANGED notnvic
    /\ query' = << >>

NvicSetPriority ==
    /\ \E irq \in NvicIrqs, prio \in NvicPrios : nvic' = nvic_set_priority(nvic, irq, prio)
    /\ UNCHANGED notnvic
    /\ query' = << >>

NvicAcknowledge ==
    /\ \E irq \in NvicIrqs : nvic' = nvic_acknowledge(nvic, irq)
    /\ UNCHANGED notnvic
    /\ query' = << >>

NvicComplete ==
    /\ \E irq \in NvicIrqs : nvic' = nvic_complete(nvic, irq)
    /\ UNCHANGED notnvic
    /\ query' = << >>

NvicReset ==
    /\ nvic' = nvic_reset(nvic)
    /\ UNCHANGED notnvic
    /\ query' = << >>

\* a call of nvic_get_pending_irq by a client of the NVIC
NvicGetPendingIrq ==
    /\ query' = <<nvic_get_pending_irq(nvic)>>
    /\ UNCHANGED nvic
    /\ UNCHANGED notnvic

NextNvic ==
    \/ NvicGetPendingIrq
    \/ NvicSetPending
    \/ NvicClearPending
    \/ NvicEnableIrq
    \/ NvicDisableIrq
    \/ NvicSetPriority
    \/ NvicAcknowledge
    \/ NvicComplete
    \/ NvicReset

SpecNvic == InitNvic /\ [][NextNvic]_vars

(***************************************************************************)
(* Properties                                                              *)
(***************************************************************************)
\* the IRQs marked active
ActiveIrqs == {i \in IrqRange : nvic.active[i] # 0}

\* a simulator_step that got past its halted check (it adds a cycle or fails)
Stepped ==
    /\ core'.cycles # core.cycles \/ status' \notin {"None", STATUS_OK, STATUS_HALTED}
    /\ IF halted = 0 THEN SimulatorStep \/ SimulatorRunIter \/ GdbStep ELSE GdbStep

\* C1: nested interrupts: once the handlers have returned through EXC_RETURN,
\* inner first and then outer, so that no handler is in progress, no IRQ is
\* active, current_priority is 0xFF and current_irq is 0.
NestedReturnCompletes ==
    (returned # << >> /\ handlers = << >>) =>
        /\ ActiveIrqs = {}
        /\ nvic.current_priority = NO_ACTIVE_PRIORITY
        /\ core.current_irq = 0

\* the minimum of priority[i] over the active IRQs, 0xFF when there is none
MinActivePriority ==
    IF ActiveIrqs = {} THEN NO_ACTIVE_PRIORITY
    ELSE CHOOSE p \in {nvic.priority[i] : i \in ActiveIrqs} :
            \A i \in ActiveIrqs : p <= nvic.priority[i]

\* C2: under any sequence of NVIC calls, current_priority is the minimum
\* priority over the active IRQs, or 0xFF when no IRQ is active.
CurrentPriorityIsMinActive == nvic.current_priority = MinActivePriority

\* C3: whenever some IRQ is marked active the core is in exception context,
\* current_irq # 0.
ActiveImpliesExceptionContext == (ActiveIrqs # {}) => core.current_irq # 0

\* the system value of the next state
SysNext ==
    [memory |-> memory', nvic |-> nvic', bus |-> bus', core |-> core',
     timer |-> timer', uart |-> uart', out |-> uart_out', handlers |-> handlers',
     returned |-> returned']

\* the result of the instruction of this step: the ticks, then fetch and execute
Executed == ExecuteInstr(TickAll(Sys, 1))

\* x is the instruction's result, the state the interrupt check of the step sees
HeldBack(x) ==
    LET act == {i \in IrqRange : x.s.nvic.active[i] # 0}
    IN  (x.st = STATUS_OK /\ act # {}) =>
            \A i \in IrqRange :
                (x.s.nvic.pending[i] # 0 /\ x.s.nvic.priority[i] >= x.s.nvic.current_priority)
                    => (nvic'.pending[i] # 0 /\ entered' # i + 1)

\* the handler entered in this step preempts only with a smaller priority value
Preempts ==
    entered' # 0 =>
        LET top == handlers'[Len(handlers')]
        IN  top.active # {} => nvic'.priority[top.irq] < top.prio

\* C4: while an IRQ is active the core enters no handler of an IRQ whose
\* priority value is >= current_priority; such an IRQ, a re-pended instance of
\* the serviced IRQ included, stays pending through the step.
NoEntryAtOrBelowCurrentPriority == [][Stepped => (Preempts /\ HeldBack(Executed))]_vars

\* a handler preempted another while the IRQ of the outer one is pending again
PreemptedWithRepend ==
    /\ Len(handlers) = 2
    /\ entered # 0
    /\ \E i \in ActiveIrqs : nvic.pending[i] # 0 /\ nvic.enabled[i] # 0

\* the eight words at the stack pointer of the next state
FrameNext == [k \in 1 .. 8 |-> bus_read(SysNext, AddW(core'.r[REG_SP], 4 * (k - 1)), 4)]

\* entry after a non-branching instruction with result x: SP is 32 lower and
\* the frame holds R0-R3, R12, LR, the PC of the next instruction, xPSR
EntryFrame(x) ==
    (entered' # 0 /\ x.st = STATUS_OK /\ x.pcw = 0) =>
        /\ core'.r[REG_SP] = SubW(R(x.s, REG_SP), 32)
        /\ FrameNext = <<R(x.s, 0), R(x.s, 1), R(x.s, 2), R(x.s, 3), R(x.s, 12),
                         R(x.s, REG_LR), AddW(core.r[REG_PC], 2), x.s.core.xpsr>>

\* the registers an exception return restored are those of the entry it returns from
ReturnRestores ==
    returned # << >> =>
        /\ returned[1].words = returned[1].from.words
        /\ returned[1].sp = returned[1].from.sp

\* C5: an IRQ taken after a non-branching instruction lowers SP by 32 and
\* stacks R0-R3, R12, LR, next PC, xPSR at SP+0..28; the return through
\* EXC_RETURN (BX LR or POP {PC}) of a handler that left the frame alone
\* restores R0-R3, R12, LR, PC, xPSR and SP to their values at entry.
EntryExitRoundTrip == [][Stepped => (EntryFrame(Executed) /\ ReturnRestores')]_vars

\* the USART1 handler (PUSH {LR}; POP {PC}) has returned to the interrupted code
ReturnedByPop == returned # << >> /\ returned[1].from.irq = USART1_IRQ

\* C6: a Bus write of the executing instruction (STR/STRH/STRB, PUSH) that
\* returns a status other than Ok makes the step return that status.
StoreStatusPropagates == [][(Stepped /\ wstatus' # STATUS_OK) => status' = wstatus']_vars

\* every IRQ the step could deliver has been delivered when the step ends
Delivered ==
    \A i \in IrqRange :
        ~(nvic'.pending[i] # 0 /\ nvic'.enabled[i] # 0
            /\ nvic'.priority[i] < nvic'.current_priority)

\* the instruction reads the peripherals as the ticks of the same step left them:
\* a byte stored to USART1 DR is handed to the output callback by the tick of the
\* next step, and a load of TIM2 CNT (LDR R5,[R3,#0x24]) sees the counter after the tick
TicksFirst ==
    /\ uart_out' = IF uart.tx_pending # 0 THEN Append(uart_out, uart.tx_char) ELSE uart_out
    /\ (Fetch(Sys).instr = 27229 /\ core.r[3] = TIM2_BASE) => core'.r[5] = timer'.cnt

\* C7: one step ticks every peripheral, then runs exactly one instruction,
\* then enters the exception of an IRQ those ticks raised, then checks the
\* breakpoints against the resulting PC.
StepOrder ==
    [][(Stepped /\ status' \in {STATUS_OK, STATUS_BREAKPOINT_HIT}) =>
            /\ TicksFirst
            /\ core'.cycles = core.cycles + 1
            /\ Delivered
            /\ (status' = STATUS_BREAKPOINT_HIT) <=> debugger_check(debugger, core'.r[REG_PC])]_vars

\* a tick raised the TIM2 IRQ, the step entered its handler and stopped at the
\* breakpoint on the handler's first instruction
BreakAtHandlerEntry ==
    /\ status = STATUS_BREAKPOINT_HIT
    /\ entered = TIM2_IRQ + 1
    /\ core.r[REG_PC] = 134217920

\* c is what core_step returned in this step
StepOutcome(c) ==
    /\ (status' # STATUS_OK) <=> (halted' = 1)
    /\ c.st # STATUS_OK => (status' = c.st /\ halted' = 1)
    /\ (c.st = STATUS_OK /\ debugger_check(debugger, R(c.s, REG_PC)))
            => (status' = STATUS_BREAKPOINT_HIT /\ halted' = 1)
    /\ (c.st = STATUS_OK /\ ~debugger_check(debugger, R(c.s, REG_PC)))
            => (status' = STATUS_OK /\ halted' = 0)

\* C8: simulator_step leaves halted set exactly when it returns a status
\* other than Ok: the status of a failing core_step with halted = 1,
\* BreakpointHit with halted = 1 on a breakpoint at the new PC, else Ok with halted = 0.
HaltedIffNotOk ==
    [][/\ (halted # 0 /\ (SimulatorStep \/ SimulatorRunIter)) =>
            (status' # STATUS_OK /\ halted' = 1)
       /\ Stepped => StepOutcome(core_step(TickAll(Sys, 1)))]_vars

\* a step failed in the core and halted the simulator
HaltedByFailingStep == status = STATUS_INVALID_INSTRUCTION /\ halted = 1

\* C9 (as the code has it): once halted is set it stays set, and every step
\* returns Halted and changes nothing, until simulator_reset, simulator_run
\* or the GDB step command clears it.
HaltSticky ==
    [][/\ (halted = 1 /\ halted' = 0) => (SimulatorReset \/ SimulatorRunBegin \/ GdbStep)
       /\ (halted = 1 /\ SimulatorStep) =>
            (status' = STATUS_HALTED /\ halted' = 1 /\ UNCHANGED sysvars)]_vars

\* C9 (as stated): once halted is set it stays set, and every step returns
\* Halted, until a reset or a GDB command clears it; nothing else clears it.
HaltClearedOnlyByResetOrGdb ==
    [][/\ (halted = 1 /\ halted' = 0) => (SimulatorReset \/ GdbStep)
       /\ (halted = 1 /\ SimulatorStep) => (status' = STATUS_HALTED /\ halted' = 1)]_vars

\* a step was refused because the simulator is halted
SteppedWhileHalted == status = STATUS_HALTED /\ halted = 1

\* C11: a 0x03 received while the c command runs stops the continue loop
\* with the simulator halted (halted = 1, running = 0) and S05 as the reply.
InterruptHaltsContinue ==
    [][(running = 1 /\ running' = 0 /\ GdbContinueInterrupted) =>
            (halted' = 1 /\ running' = 0 /\ reply' = <<"c", "S05">>)]_vars

\* C12: an M packet whose bus_write fails (Flash, an unmapped address) is
\* answered with an error packet, not with OK.
WriteMemFailureAnswered ==
    [][(reply' # << >> /\ reply'[1] = "M" /\ wstatus' # STATUS_OK /\ GdbWriteMem) =>
            reply'[2] # "OK"]_vars

\* C13: during the c command a step that returns BreakpointHit or another
\* status than Ok is the last one: the command ends with running = 0 and
\* the reply S05, and the loop is never in progress with the simulator halted.
ContinueStopsOnBreakOrFault ==
    [][/\ (running = 1 /\ status' # STATUS_OK /\ (GdbContinueStep \/ GdbContinueInterrupted)) =>
            (running' = 0 /\ halted' = 1 /\ reply' = <<"c", "S05">>)
       /\ running' = 1 => halted' = 0]_vars

\* the c command ended on a breakpoint
ContinueEndedAtBreakpoint ==
    reply = <<"c", "S05">> /\ status = STATUS_BREAKPOINT_HIT /\ running = 0 /\ halted = 1

\* the IRQs that may be taken: pending, enabled and of a priority value below current_priority
Candidates == {i \in IrqRange : nvic.pending[i] # 0 /\ nvic.enabled[i] # 0
                                  /\ nvic.priority[i] < nvic.current_priority}

\* i comes before j in the selection: smaller priority value, lower index on a tie
Precedes(i, j) ==
    IF nvic.priority[i] = nvic.priority[j] THEN i <= j ELSE nvic.priority[i] < nvic.priority[j]

\* C14: nvic_get_pending_irq reports found exactly when a candidate exists
\* (pending, enabled, priority below current_priority); the IRQ returned is
\* the candidate of the smallest priority value, of the lowest index among
\* equals; the call leaves the NVIC as it was.
GetPendingSelectsBestCandidate ==
    [][(query' # << >> /\ NvicGetPendingIrq) =>
            /\ nvic' = nvic
            /\ (query'[1].found = 1) = (Candidates # {})
            /\ query'[1].found \in {0, 1}
            /\ query'[1].found = 1 =>
                    /\ query'[1].best_irq \in Candidates
                    /\ \A j \in Candidates : Precedes(query'[1].best_irq, j)]_vars

\* the call chose the lower index among two candidates of the same priority
\* while an IRQ of a lower urgency was active
ChoseLowestIndexOnTie ==
    /\ query # << >>
    /\ query[1].found = 1
    /\ ActiveIrqs # {}
    /\ \E j \in Candidates : j # query[1].best_irq /\ nvic.priority[j] = nvic.priority[query[1].best_irq]

\* the IRQs that are pending and enabled
PendingEnabled == {i \in IrqRange : nvic.pending[i] # 0 /\ nvic.enabled[i] # 0}

\* C15 (as stated): with no IRQ active, nvic_get_pending_irq reports an
\* IRQ exactly when some IRQ is pending and enabled, whatever the 8-bit
\* priorities; of two such IRQs it selects the one of the smaller priority value.
IdleReportsAnyPendingEnabled ==
    [][(query' # << >> /\ ActiveIrqs = {} /\ NvicGetPendingIrq) =>
            /\ (query'[1].found = 1) = (PendingEnabled # {})
            /\ \A a, b \in PendingEnabled : nvic.priority[a] < nvic.priority[b] =>
                    (query'[1].found = 1 /\ query'[1].best_irq # b
                     /\ (PendingEnabled = {a, b} => query'[1].best_irq = a))]_vars

\* C15 (as the code has it): with no IRQ active, nvic_get_pending_irq
\* reports an IRQ exactly when some IRQ is pending and enabled with a priority
\* value below 0xFF; of two pending and enabled IRQs it selects the one of the
\* smaller priority value.
IdleReportsPendingEnabledBelowSentinel ==
    [][(query' # << >> /\ ActiveIrqs = {} /\ NvicGetPendingIrq) =>
            /\ (query'[1].found = 1) =
                    (\E i \in PendingEnabled : nvic.priority[i] < NO_ACTIVE_PRIORITY)
            /\ \A a, b \in PendingEnabled : nvic.priority[a] < nvic.priority[b] =>
                    (query'[1].found = 1 /\ query'[1].best_irq # b
                     /\ (PendingEnabled = {a, b} => query'[1].best_irq = a))]_vars

\* with no IRQ active the call chose, of two pending and enabled IRQs, the
\* one of the smaller priority value, the other being of priority 0xFF
IdleChoseSmallerPriority ==
    /\ query # << >>
    /\ query[1].found = 1
    /\ ActiveIrqs = {}
    /\ \E b \in PendingEnabled :
          /\ nvic.priority[b] = NO_ACTIVE_PRIORITY
          /\ nvic.priority[query[1].best_irq] < nvic.priority[b]
          /\ b < query[1].best_irq

\* the timer test's system: its image, TIM2 with ARR = 5, PSC = 0, UIE and CEN
\* set, IRQ 28 enabled; core.cycles is the number of steps executed since reset
TimerTestRuns ==
    /\ memory.flash = ImageSpin
    /\ timer.arr = 5 /\ timer.psc = 0
    /\ AndW(timer.cr1, TIM_CR1_CEN) # 0 /\ AndW(timer.dier, TIM_DIER_UIE) # 0

\* C16 (as the code has it): in the timer test's system R4 = 0 after each of
\* the first 5 steps; step 5 enters the handler (PC = 0x080000C0,
\* current_irq > 0); after step 6 R4 = 1; after step 7 PC = 0x08000082,
\* current_irq = 0, R4 = 1 and SR.UIF is still set, and so after step 8.
HandlerEnteredAtStepFive ==
    TimerTestRuns =>
        /\ core.cycles \in 1 .. 5 => core.r[4] = 0
        /\ core.cycles \in 1 .. 4 => core.current_irq = 0
        /\ core.cycles = 5 => (core.r[REG_PC] = 134217920 /\ core.current_irq > 0)
        /\ core.cycles = 6 => (core.r[4] = 1 /\ core.current_irq > 0)
        /\ core.cycles \in 7 .. 8 =>
                /\ core.r[REG_PC] = 134217858
                /\ core.current_irq = 0
                /\ core.r[4] = 1
                /\ AndW(timer.sr, TIM_SR_UIF) # 0

\* C16 (as stated): R4 = 0 after 5 steps; after step 6 PC = 0x080000C0 and
\* current_irq > 0; after step 7 R4 = 1; after step 8 PC = 0x08000082,
\* current_irq = 0 and SR.UIF is still set.
HandlerEnteredAtStepSix ==
    TimerTestRuns =>
        /\ core.cycles = 5 => core.r[4] = 0
        /\ core.cycles = 6 => (core.r[REG_PC] = 134217920 /\ core.current_irq > 0)
        /\ core.cycles = 7 => core.r[4] = 1
        /\ core.cycles = 8 =>
                /\ core.r[REG_PC] = 134217858
                /\ core.current_irq = 0
                /\ AndW(timer.sr, TIM_SR_UIF) # 0

\* the handler of the timer test has run and returned to the main loop
HandlerReturnedAtStepSeven ==
    /\ TimerTestRuns
    /\ core.cycles = 7
    /\ core.r[REG_PC] = 134217858 /\ core.r[4] = 1 /\ core.current_irq = 0
    /\ returned # << >> /\ returned[1].from.irq = TIM2_IRQ

\* C17: an iteration of simulator_run whose step fails, or leaves PC at a
\* breakpoint address, is the last: halted = 1, running = 0, and on a
\* breakpoint PC is its address after exactly one more instruction, the one
\* at the breakpoint not executed; any other iteration leaves the run going.
\* On the breakpoint test's code with the breakpoint on the third ADD the run
\* stops with PC = 0x08000086 and R0 = 2.
RunStopsAtBreakpoint ==
    [][(running = 1 /\ halted = 0 /\ SimulatorRunIter) =>
            /\ IF status' \notin {STATUS_OK, STATUS_BREAKPOINT_HIT}
               THEN running' = 0 /\ halted' = 1
               ELSE IF debugger_check(debugger, core'.r[REG_PC])
                    THEN /\ status' = STATUS_BREAKPOINT_HIT
                         /\ running' = 0 /\ halted' = 1
                         /\ core'.cycles = core.cycles + 1
                    ELSE status' = STATUS_OK /\ running' = 1 /\ halted' = 0
            /\ (memory.flash = ImageCount /\ status' = STATUS_BREAKPOINT_HIT) =>
                    (core'.r[REG_PC] = 134217862 /\ core'.r[0] = 2)]_vars

\* the breakpoint test's run has stopped before the third ADD
StoppedBeforeThirdAdd ==
    /\ memory.flash = ImageCount
    /\ debugger = <<134217862>>
    /\ status = STATUS_BREAKPOINT_HIT /\ halted = 1 /\ running = 0
    /\ core.r[REG_PC] = 134217862 /\ core.r[0] = 2 /\ core.cycles = 3

\* C18: simulator_step called while halted returns Halted and changes
\* nothing: no peripheral ticked, no instruction executed; registers, cycles,
\* memory, NVIC, timer, UART and the UART output are as before.
HaltedStepChangesNothing ==
    [][(halted # 0 /\ SimulatorStep) =>
            /\ status' = STATUS_HALTED
            /\ core' = core /\ memory' = memory /\ nvic' = nvic
            /\ timer' = timer /\ uart' = uart /\ uart_out' = uart_out
            /\ bus' = bus /\ debugger' = debugger
            /\ halted' = halted /\ running' = running]_vars

\* a step was refused while the timer was enabled and counting
HaltedStepWithTimerCounting ==
    /\ status = STATUS_HALTED /\ halted = 1 /\ running = 0
    /\ AndW(timer.cr1, TIM_CR1_CEN) # 0 /\ timer.cnt > 0

\* the timer counts: CEN set and ARR > 0
TimerCounts == AndW(timer.cr1, TIM_CR1_CEN) # 0 /\ timer.arr > 0

\* the overflow period in ticks: (PSC + 1) * ARR
Period == (timer.psc + 1) * timer.arr

\* C19: with CEN set, PSC = p and ARR = N > 0, from CNT = 0, a zero
\* prescaler counter and UIF clear, CNT is back at 0 with UIF set for the first
\* time at tick (p+1)*N, and a tick sets UIF with CNT back at 0 exactly when
\* its number is a multiple of (p+1)*N.
OverflowEveryPeriod ==
    [][(ticks' = ticks + 1 /\ TimerCounts /\ TimerTick) =>
            /\ timer'.prescaler_counter = ticks' % (timer.psc + 1)
            /\ timer'.cnt = (ticks' \div (timer.psc + 1)) % timer.arr
            /\ IF ticks' % Period = 0
               THEN /\ AndW(timer'.sr, TIM_SR_UIF) # 0
                    /\ timer'.cnt = 0 /\ timer'.prescaler_counter = 0
               ELSE /\ timer'.sr = timer.sr
                    /\ ~(timer'.cnt = 0 /\ timer'.prescaler_counter = 0)
            /\ ticks' < Period => AndW(timer'.sr, TIM_SR_UIF) = 0]_vars

\* the second overflow of a timer with a prescaler: UIF cleared after the
\* first one is set again at tick 2*(p+1)*N
OverflowedTwice ==
    /\ TimerCounts /\ timer.psc > 0 /\ timer.arr > 1
    /\ ticks = 2 * Period
    /\ timer.cnt = 0 /\ AndW(timer.sr, TIM_SR_UIF) # 0

\* C20: a tick sets pending for the timer's IRQ exactly when the counter
\* overflows on it with DIER.UIE set; an overflow with UIE clear sets UIF and
\* leaves the NVIC as it was; a tick without overflow, or with CEN clear,
\* leaves the NVIC as it was.
PendingExactlyOnEnabledOverflow ==
    [][(ticks' = ticks + 1 /\ TimerTick) =>
            IF TimerCounts /\ ticks' % Period = 0
            THEN /\ AndW(timer'.sr, TIM_SR_UIF) # 0
                 /\ nvic' = IF AndW(timer.dier, TIM_DIER_UIE) # 0
                             THEN [nvic EXCEPT !.pending[TIM2_IRQ] = 1]
                             ELSE nvic
            ELSE nvic' = nvic /\ timer'.sr = timer.sr]_vars

\* an overflow with UIE set has made the IRQ pending again after it had been cleared
PendingSetByOverflow ==
    /\ TimerCounts /\ AndW(timer.dier, TIM_DIER_UIE) # 0
    /\ ticks = 2 * Period
    /\ nvic.pending[TIM2_IRQ] = 1

\* the byte written to DR and not yet ticked out
InFlight == IF uart.tx_pending # 0 THEN <<uart.tx_char>> ELSE << >>

\* C21: with UE and TE set, the bytes written to DR, each write followed by
\* a tick, reach the output callback once each and in write order; TXE and TC
\* are clear between a write and its tick and set after the tick.
EchoInWriteOrder ==
    (AndW(uart.cr1, UART_CR1_UE + UART_CR1_TE) = UART_CR1_UE + UART_CR1_TE) =>
        /\ uart_out \o InFlight = host.sent
        /\ AndW(uart.sr, UART_SR_TXE + UART_SR_TC) =
                (IF uart.tx_pending # 0 THEN 0 ELSE UART_SR_TXE + UART_SR_TC)

\* three bytes, not all the same, have been echoed
EchoedThree ==
    /\ Len(uart_out) = 3 /\ uart_out = host.sent /\ uart_out[1] # uart_out[2]
    /\ AndW(uart.sr, UART_SR_TXE + UART_SR_TC) = UART_SR_TXE + UART_SR_TC

\* the bytes queued in the RX ring buffer, oldest first
Queued(u) == [k \in 1 .. u.rx_count |-> u.rx_buffer[(u.rx_tail + k - 1) % UART_RX_BUFFER_SIZE]]

\* C22: the RX buffer is a FIFO of capacity 16: an accepted byte joins the
\* queue at its end, a byte arriving with 16 queued changes nothing, a DR read
\* returns and removes the oldest byte, and a DR read of the empty queue
\* returns 0 and changes nothing.
RxIsFifoOfSixteen ==
    [][/\ (host'.fed # host.fed /\ UartFeed) =>
            IF uart.rx_count < 16
            THEN Queued(uart') = Append(Queued(uart), RxStream(host.fed))
            ELSE uart' = uart /\ nvic' = nvic
       /\ (query' # << >> /\ UartReadDr) =>
            IF uart.rx_count = 0
            THEN query' = <<0>> /\ uart' = uart
            ELSE query' = <<Head(Queued(uart))>> /\ Queued(uart') = Tail(Queued(uart))
       /\ uart'.rx_count <= 16]_vars

\* two bytes were dropped on a full buffer that had wrapped around
DroppedOnFull ==
    /\ uart.rx_count = 16 /\ uart.rx_tail = 1 /\ host.fed = 19

\* [base, base + size) meets the range of a region of b
Overlaps(b, base, size) ==
    \E i \in 1 .. Len(b) : base < b[i].base + b[i].size /\ b[i].base < base + size

\* C23: bus_register_region rejects a region whose range overlaps that of a
\* registered region: it returns a status other than Ok and leaves the
\* region table as it was.
OverlapRejected ==
    [][\A base \in BusBases, size \in BusSizes :
            (Overlaps(bus, base, size) /\ BusRegisterRegion(base, size)) =>
                (query' # <<STATUS_OK>> /\ bus' = bus)]_vars


\* addr lies in one of the two regions of Flash
FlashMapped(addr) ==
    /\ find_region(bus, addr) # 0
    /\ bus[find_region(bus, addr)].dev = "flash"

\* C24: Flash is read-only at runtime.  A bus_write of any size to an address
\* of either Flash mapping returns Error and leaves the memory as it was; an
\* M packet and an instruction's store leave every byte of Flash as it was;
\* memory_reset keeps Flash and clears SRAM.
FlashReadOnly ==
    [][/\ \/ Len(query') # 1
          \/ ReturnedStatus(STATUS_ERROR) /\ memory' = memory
          \/ \A addr \in MemAddrs, size \in MemSizes :
                ~(FlashMapped(addr) /\ MemBusWrite(addr, size))
       /\ memory'.flash # memory.flash => ~(MemGdbWrite \/ MemStep)
       /\ (Len(query') = 0 /\ MemReset)
             => (memory'.flash = memory.flash /\ memory'.sram = << >>)]_vars

\* a write to Flash is refused after a reset emptied the SRAM that the image's
\* PUSH had written
FlashWriteRefusedAfterReset ==
    /\ Len(query) = 1
    /\ query[1] = STATUS_ERROR
    /\ memory.sram = << >>
    /\ core.cycles >= 6
    /\ memory.flash = ImageStores

\* the access of size bytes at addr begins in a region of memory and ends
\* past its last byte
PastRegionEnd(addr, size) ==
    /\ find_region(bus, addr) # 0
    /\ bus[find_region(bus, addr)].dev \in {"flash", "sram"}
    /\ Outside(SubW(addr, bus[find_region(bus, addr)].base), size,
               bus[find_region(bus, addr)].size)

\* C25: an access whose offset + size exceeds the container touches nothing
\* outside it, for every 32-bit offset: memory_flash_read and memory_sram_read
\* return 0, memory_sram_write returns InvalidAddress and leaves the memory as
\* it was; the same for a Bus access that begins inside a region and ends past
\* its last byte (a write there to Flash returns Error).
OutOfRangeTouchesNothing ==
    [][/\ \A offset \in MemOffsets, size \in MemSizes :
             (Outside(offset, size, SRAM_SIZE) /\ MemSramWrite(offset, size))
                 => (ReturnedStatus(STATUS_INVALID_ADDRESS) /\ memory' = memory)
       /\ \A offset \in MemOffsets, size \in MemSizes :
             (Outside(offset, size, SRAM_SIZE) /\ MemRead("sram", offset, size))
                 => ReturnedValue(0)
       /\ \A offset \in MemOffsets, size \in MemSizes :
             (Outside(offset, size, FLASH_SIZE) /\ MemRead("flash", offset, size))
                 => ReturnedValue(0)
       /\ \A addr \in MemAddrs, size \in MemSizes :
             (PastRegionEnd(addr, size) /\ MemBusWrite(addr, size))
                 => (~ReturnedStatus(STATUS_OK) /\ memory' = memory)
       /\ \A addr \in MemAddrs, size \in MemSizes :
             (PastRegionEnd(addr, size) /\ MemBusRead(addr, size))
                 => ReturnedValue(0)]_vars


\* the halfwords core_step fetches at PC and at PC + 2
Hw1 == AndW(bus_read(Sys, R(Sys, REG_PC), 2), 65535)
Hw2 == AndW(bus_read(Sys, AddW(R(Sys, REG_PC), 2), 2), 65535)

\* the top five bits of a halfword
TopFive(hw) == hw \div 2048

\* the encodings the claim names: BL (11110..., 11x1...), B.W (11110...,
\* 10x1...), UDF.W (F7Fx Axxx); Thumb-2 has no 32-bit encoding of SVC
IsBL(hw1, hw2) == TopFive(hw1) = 30 /\ AndN(hw2, 53248) = 53248
IsBW(hw1, hw2) == TopFive(hw1) = 30 /\ AndN(hw2, 53248) = 36864
IsUdfW(hw1, hw2) == AndN(hw1, 65520) = 63472 /\ AndN(hw2, 61440) = 40960

\* PC + 4 + SignExtend(S:I1:I2:imm10:imm11:0) of BL and B.W
WideTarget(pc, hw1, hw2) ==
    LET S == Field(hw1, 10, 1)
        I1 == IF Field(hw2, 13, 1) = S THEN 1 ELSE 0
        I2 == IF Field(hw2, 11, 1) = S THEN 1 ELSE 0
    IN  AddW(AddW(pc, 4),
             sign_extend(S * 16777216 + I1 * 8388608 + I2 * 4194304
                         + Field(hw1, 0, 10) * 4096 + Field(hw2, 0, 11) * 2, 25))

\* C26: a core_step whose first halfword has top five bits 11101, 11110 or
\* 11111 executes BL and B.W as branches (Ok, PC at the target unless an
\* exception is entered), accepts UDF as a no-op (Ok, PC advanced by 4), and
\* returns InvalidInstruction for every other 32-bit encoding.
WideDecode ==
    [][(Len(query') = 1 /\ TopFive(Hw1) \in {29, 30, 31} /\ CoreStep)
          => IF IsBL(Hw1, Hw2) \/ IsBW(Hw1, Hw2)
             THEN /\ query'[1] = STATUS_OK
                  /\ entered' = 0 => core'.r[REG_PC] = WideTarget(core.r[REG_PC], Hw1, Hw2)
             ELSE IF IsUdfW(Hw1, Hw2)
             THEN /\ query'[1] = STATUS_OK
                  /\ entered' = 0 => core'.r[REG_PC] = AddW(core.r[REG_PC], 4)
             ELSE query'[1] = STATUS_INVALID_INSTRUCTION]_vars

\* C27: bit 24 (T) of xPSR is set in every reachable core state.
ThumbBitSet == Bit(core.xpsr, 24) = 1

\* C28: PC is even in every reachable core state: after reset, after every
\* instruction that writes PC, after exception entry and exception return.
PcEven == core.r[REG_PC] % 2 = 0

\* C29: a BX whose register holds a value with bit 0 clear that is not an
\* EXC_RETURN value does not return Ok.
BxToArmStateReported ==
    [][(/\ Len(query') = 1
        /\ AndN(Hw1, 65408) = 18176
        /\ core.r[Field(Hw1, 3, 4)] % 2 = 0
        /\ ~IS_EXC_RETURN(core.r[Field(Hw1, 3, 4)])
        /\ CoreStep)
          => query'[1] # STATUS_OK]_vars

\* C30: a core_step that returns Ok adds exactly 1 to cycles, also when it
\* enters an exception; one that returns InvalidInstruction leaves cycles and
\* PC as they were; only core_reset lowers cycles.
CyclesCountRetired ==
    [][/\ (Len(query') = 1 /\ CoreStep)
            => /\ query'[1] = STATUS_OK => core'.cycles = core.cycles + 1
               /\ query'[1] = STATUS_INVALID_INSTRUCTION
                     => (core'.cycles = core.cycles /\ core'.r[REG_PC] = core.r[REG_PC])
       /\ core'.cycles < core.cycles => CoreReset]_vars

\* the third step returned Ok and entered the USART1 handler
CountedStepEnteredHandler ==
    /\ query = <<STATUS_OK>>
    /\ entered = USART1_IRQ + 1
    /\ core.current_irq = USART1_IRQ + 1
    /\ core.cycles = 3


\* the regions of the Bus that contain addr, by index
Containing(addr) == {i \in 1 .. Len(bus) : InRegion(bus[i], addr)}

\* the earliest-registered region that contains addr
Earliest(addr) == CHOOSE i \in Containing(addr) : \A j \in Containing(addr) : i <= j

\* what the read handler of region r returns for (offset, size)
HandlerRead(r, offset, size) ==
    CASE r.dev = "flash" -> memory_flash_read(memory, offset, size)
      [] r.dev = "sram"  -> memory_sram_read(memory, offset, size)
      [] r.dev = "timer" -> timer_read(timer, offset, size)
      [] r.dev = "uart"  -> uart_read_val(uart, offset, size)

\* what the write handler of region r returns and leaves of the memory
HandlerWrite(r, offset, value, size) ==
    IF r.dev = "flash" THEN memory_flash_write(memory, offset, value, size)
    ELSE memory_sram_write(memory, offset, value, size)

\* C31: in every state the host reaches, bus_read and bus_write of an address
\* inside some region give what the handler of the earliest-registered region
\* containing it gives for offset = address - base; a read of Flash at
\* 0x00000000 + k returns what a read at 0x08000000 + k returns.
FirstMatchRouting ==
    /\ \A addr \in RouteAddrs, size \in MemSizes :
          Containing(addr) # {}
              => /\ bus_read(Sys, addr, size)
                        = HandlerRead(bus[Earliest(addr)],
                                      SubW(addr, bus[Earliest(addr)].base), size)
                 /\ bus_write(Sys, addr, MemValue, size).st
                        = HandlerWrite(bus[Earliest(addr)],
                                       SubW(addr, bus[Earliest(addr)].base), MemValue, size).st
                 /\ bus_write(Sys, addr, MemValue, size).s.memory
                        = HandlerWrite(bus[Earliest(addr)],
                                       SubW(addr, bus[Earliest(addr)].base), MemValue, size).mem
    /\ \A k \in {4, 128}, size \in MemSizes :
          bus_read(Sys, k, size) = bus_read(Sys, FLASH_BASE + k, size)

\* a write at 0x20004000 was stored by SRAM at offset 0x4000 although a later
\* region registered at 0x20004000 contains the address as well
RoutedToEarlierOfTwo ==
    /\ Cardinality(Containing(536887296)) = 2
    /\ query = <<STATUS_OK>>
    /\ ByteAt(memory.sram, 16384) # 0
    /\ ByteAt(memory.sram, 0) = 0

\* C32: in every state the host reaches, bus_read of an address inside no
\* region returns 0 and leaves the system as it is; bus_write there returns
\* InvalidAddress and leaves the system as it is.
UnmappedAccessRefused ==
    \A addr \in RouteAddrs, size \in MemSizes :
        Containing(addr) = {}
            => /\ bus_read(Sys, addr, size) = 0
               /\ bus_read_eff(Sys, addr, size) = Sys
               /\ bus_write(Sys, addr, MemValue, size) = [st |-> STATUS_INVALID_ADDRESS, s |-> Sys]

\* a write to an address in no region was refused while SRAM holds data of an
\* earlier write
UnmappedWriteRefused ==
    /\ query = <<STATUS_INVALID_ADDRESS>>
    /\ Len(bus) = 5
    /\ memory.sram # << >>


\* value truncated to size bytes
Truncated(value, size) ==
    CASE size = 1 -> AndW(value, 255)
      [] size = 2 -> AndW(value, 65535)
      [] size = 4 -> value

\* C33: an SRAM write with offset + size <= SRAM_SIZE returns Ok, and a read at
\* the same offset and size then returns the value truncated to the size;
\* after a word write the byte reads at offset .. offset + 3 return the
\* word's bytes, least significant first.
LittleEndianRoundTrip ==
    [][\A offset \in LeOffsets, value \in LeValues, size \in MemSizes :
          (Len(query') = 1 /\ offset + size <= SRAM_SIZE /\ LeWrite(offset, value, size))
              => /\ query'[1] = STATUS_OK
                 /\ memory_sram_read(memory', offset, size) = Truncated(value, size)
                 /\ size = 4 => \A k \in 0 .. 3 :
                       memory_sram_read(memory', offset + k, 1) = ByteOf(value, k)]_vars

\* the word 0xCAFEBABE is read back from the last four bytes of SRAM
WordReadBack ==
    /\ query = <<"value", MemValue>>
    /\ ByteAt(memory.sram, 20476) = 190
    /\ ByteAt(memory.sram, 20479) = 202


\* no address occurs twice in the table
NoDuplicate(dbg) == Cardinality({dbg[i] : i \in 1 .. Len(dbg)}) = Len(dbg)

\* the addresses watched: those of the calls, and the second and the last
\* of Filled(DEBUGGER_MAX_BREAKPOINTS - 2)
DbgWatched == DbgAddrs \cup BreakAddrs \cup {134221828, 134221948}

\* the watched addresses debugger_check answers 1 for
Checked(dbg) == {b \in DbgWatched : debugger_check(dbg, b)}

\* C34: the table never holds an address twice nor more than 64 entries, and
\* debugger_check(pc) is true exactly when pc was added and not removed since:
\* an add that returns 0 makes it true for its address only, an add that
\* returns -1 and a remove of an absent address change no answer, a remove
\* makes it false for its address only.
BreakpointsAreASet ==
    /\ [](NoDuplicate(debugger) /\ Len(debugger) <= DEBUGGER_MAX_BREAKPOINTS)
    /\ [][/\ \A a \in DbgAddrs :
                (Len(query') = 1 /\ DbgAdd(a))
                    => Checked(debugger') = IF query'[1] = 0 THEN Checked(debugger) \cup {a}
                                            ELSE Checked(debugger)
          /\ \A a \in DbgAddrs :
                (Len(query') = 1 /\ DbgRemove(a))
                    => /\ Checked(debugger') = Checked(debugger) \ {a}
                       /\ query'[1] = IF a \in Checked(debugger) THEN 0 ELSE -1
          /\ \A a \in DbgAddrs :
                (Len(query') = 2 /\ DbgCheck(a))
                    => (query'[2] = 1 <=> a \in Checked(debugger))]_vars

\* the first of 62 breakpoints was removed and a check of it answers 0, with
\* a breakpoint added after the removal in the table
RemovedFromTheFront ==
    /\ query = <<"check", 0>>
    /\ Len(debugger) = DEBUGGER_MAX_BREAKPOINTS - 2
    /\ debugger[1] = 134221828
    /\ debugger[Len(debugger)] = 134217856

\* C35: debugger_add_breakpoint returns -1 whenever the table holds 64 entries
\* and then leaves it as it was; below 64 entries an add of an address that is
\* present returns 0 and changes nothing.
AddRefusedWhenFull ==
    [][\A a \in DbgAddrs :
          (Len(query') = 1 /\ DbgAdd(a))
              => /\ Len(debugger) = DEBUGGER_MAX_BREAKPOINTS
                    => (query'[1] = -1 /\ debugger' = debugger)
                 /\ (Len(debugger) < DEBUGGER_MAX_BREAKPOINTS /\ a \in Checked(debugger))
                    => (query'[1] = 0 /\ debugger' = debugger)]_vars


\* the 16-bit encodings 0xDF00 .. 0xDFFF
SvcEncodings == {57088 + imm : imm \in 0 .. 255}

\* the names of the instr_table entries the encodings 0xDFxx match first
SvcDispatch == {instr_table[Lookup(instr)][3] : instr \in SvcEncodings}

\* the sixteen settings of N, Z, C and V in xpsr
FlagStates(xpsr) ==
    {set_flag(set_flag(set_flag(set_flag(xpsr, XPSR_N, n), XPSR_Z, z), XPSR_C, c), XPSR_V, v) :
        n \in BOOLEAN, z \in BOOLEAN, c \in BOOLEAN, v \in BOOLEAN}

\* C36: every encoding 0xDFxx matches the SVC entry of instr_table first, and
\* executed at the PC of any reachable state under any setting of the flags
\* it returns Ok, writes no PC and leaves PC + 2 with nothing else changed; a
\* core_step that fetched it returns Ok and, unless it entered an exception,
\* leaves PC + 2.
SvcEncodingNeverBranches ==
    /\ SvcDispatch = {"SVC"}
    /\ \A instr \in {57089, 57342}, xpsr \in FlagStates(core.xpsr) :
          LET s == [Sys EXCEPT !.core.xpsr = xpsr]
              x == Execute(s, R(s, REG_PC), Decode(instr))
          IN  /\ x.st = STATUS_OK
              /\ x.pcw = 0
              /\ x.s = SetR(s, REG_PC, AddW(R(s, REG_PC), 2))
    /\ Fetch(Sys).instr \in SvcEncodings
          => /\ core_step(Sys).st = STATUS_OK
             /\ core_step(Sys).entered = 0
                   => R(core_step(Sys).s, REG_PC) = AddW(R(Sys, REG_PC), 2)

\* core_step has run 0xDFFE at 0x82 with N set by CMP R0,#1 and returned Ok
\* with PC at 0x08000084; BMI with this offset would have left 0x08000082
SvcSteppedOverWithNSet ==
    /\ query = <<STATUS_OK>>
    /\ entered = 0
    /\ core.cycles = 2
    /\ R(Sys, REG_PC) = 134217860
    /\ AndW(bus_read(Sys, 134217858, 2), 65535) = 57342
    /\ Bit(core.xpsr, 31) = 1


\* the bytes delivered to the output callback, then the byte pending
Transmitted ==
    uart_out \o (IF uart.tx_pending = 1 THEN <<uart.tx_char>> ELSE << >>)

\* C37 as stated: once uart_tick has followed the last DR write, the bytes
\* delivered to the output callback are the bytes written to DR, in order.
NoTxByteLost == uart.tx_pending = 0 => uart_out = host.sent

\* C37: a DR write replaces the byte pending: the bytes delivered, with the
\* byte pending, are as many as the DR writes that found no byte pending, the
\* last of them is the last byte written, and they are the bytes written, in
\* order, when every DR write followed the uart_tick of the one before.
TxLatchHoldsOneByte ==
    /\ Len(Transmitted) + host.over = Len(host.sent)
    /\ host.sent # << >> => Transmitted[Len(Transmitted)] = host.sent[Len(host.sent)]
    /\ host.over = 0 => Transmitted = host.sent

\* three bytes written, the second before a uart_tick followed the first:
\* the first never reached the output callback
FirstByteReplaced ==
    /\ host.sent = <<72, 105, 72>>
    /\ host.over = 1
    /\ uart.tx_pending = 0
    /\ uart_out = <<105, 72>>


\* SR.RXNE is set exactly when the RX buffer holds a byte
RxneTracksCount(u) == (AndW(u.sr, UART_SR_RXNE) # 0) <=> (u.rx_count > 0)

\* C39 as stated: in every reachable state of the UART, SR.RXNE is set exactly
\* when rx_count > 0.
RxneIffNonEmpty == RxneTracksCount(uart)


\* the stop replies among what the stub sent
StopReplies(log) == SelectSeq(log, LAMBDA x : x = "S05" \/ x = "S02")

\* C38: a client that sends 0x03 only while it awaits the stop reply of a c
\* command is never sent S02, and never more stop replies than the commands
\* it sent.
OneStopReplyPerContinue ==
    /\ \A i \in 1 .. Len(rsp.log) : rsp.log[i] # "S02"
    /\ Len(StopReplies(rsp.log)) <= rsp.cmds

\* C40: a packet whose checksum digits are not the sum of its payload modulo
\* 256 is answered with '-', nothing of the simulator changes, and
\* rsp_session goes on to receive the next packet.
BadChecksumNackedSessionOpen ==
    [][(rsp.pos = "recv" /\ rsp'.pos # rsp.pos /\ rsp_recv_packet(rsp.wire).len = -1)
          => /\ rsp'.log = Append(rsp.log, "-")
             /\ UNCHANGED <<sysvars, debugger, halted, running, status>>
             /\ rsp'.pos = "recv"]_vars

=============================================================================
